---- MODULE Spec2Model ----
(***************************************************************************)
(* DOCX template engine of the builder: the Documentero placeholder parser *)
(* (parseDocumenteroTemplate), the field type inferencer (inferFieldType), *)
(* the Phase 1 validator (validateDocxFieldsForPhase1) and the table       *)
(* synthesizers (createTableFromDocxFields,                                *)
(* createFormComponentsFromDocxFields, createScreenFromDocxTemplate); and   *)
(* what surrounds the engine: createAppFromDocxTemplate, the controller    *)
(* uploadDocxTemplate, and the handlers of the upload modal and of the     *)
(* templates modal, with every awaited call as a step of its own.          *)
(*                                                                         *)
(* Strings are sequences of one-character strings, so that toLowerCase,    *)
(* includes, split, join and template-literal concatenation are computed.  *)
(* A document text is a sequence of lexemes: each lexeme is one maximal    *)
(* piece of text that a pattern of the parser can consume as a unit.       *)
(***************************************************************************)
EXTENDS Integers, Sequences, FiniteSets, TLC

VARIABLES
  pc,            \* position of the run: which function is applied next
  text,          \* documentText handed to parseDocumenteroTemplate
  parseResults,  \* ParsedTemplate returned by the parser, or null
  fields,        \* field list handed to the validator and the synthesizer
  validation,    \* result of validateDocxFieldsForPhase1, or null
  table,         \* result of createTableFromDocxFields, or null
  screen,        \* screen returned by createScreenFromDocxTemplate, or null
  stack,         \* running invocations of parseDocumenteroTemplate, innermost last
  fieldName,     \* argument of inferFieldType
  inferredType,  \* result of inferFieldType, "none" before the call
  ui,            \* component state of the modal under study, or null
  tasks,         \* async calls in flight: started, not yet settled
  calls,         \* awaited calls to the stores and the sdk, in issue order
  request,       \* input of the server function under study, or null
  response       \* HTTP status set by the controller, 0 while none is set

vars ==
  <<pc, text, parseResults, fields, validation, table, screen, stack,
    fieldName, inferredType, ui, tasks, calls, request, response>>

\* the state outside the engine: modals, stores, controller
ioVars == <<ui, tasks, calls, request, response>>

\* a result that has not been produced yet
null == [isNull |-> TRUE]

----------------------------------------------------------------------------
(* Characters and strings *)

UpperChars == <<"A","B","C","D","E","F","G","H","I","J","K","L","M",
                "N","O","P","Q","R","S","T","U","V","W","X","Y","Z">>
LowerChars == <<"a","b","c","d","e","f","g","h","i","j","k","l","m",
                "n","o","p","q","r","s","t","u","v","w","x","y","z">>

\* the lower-case letter of each upper-case letter
LowerOf ==
  [ch \in {UpperChars[i] : i \in 1..26} |->
     LowerChars[CHOOSE i \in 1..26 : UpperChars[i] = ch]]

toLowerCaseChar(ch) == IF ch \in DOMAIN LowerOf THEN LowerOf[ch] ELSE ch

\* String.prototype.toLowerCase
toLowerCase(s) == [i \in 1..Len(s) |-> toLowerCaseChar(s[i])]

\* String.prototype.includes
includes(s, sub) ==
  \E i \in 0..(Len(s) - Len(sub)) : SubSeq(s, i + 1, i + Len(sub)) = sub

Min(S) == CHOOSE m \in S : \A n \in S : m <= n

----------------------------------------------------------------------------
(* Keywords of inferFieldType *)

kw_email == <<"e", "m", "a", "i", "l">>
kw_mail == <<"m", "a", "i", "l">>
kw_phone == <<"p", "h", "o", "n", "e">>
kw_tel == <<"t", "e", "l">>
kw_mobile == <<"m", "o", "b", "i", "l", "e">>
kw_date == <<"d", "a", "t", "e">>
kw_time == <<"t", "i", "m", "e">>
kw_created == <<"c", "r", "e", "a", "t", "e", "d">>
kw_updated == <<"u", "p", "d", "a", "t", "e", "d">>
kw_birth == <<"b", "i", "r", "t", "h">>
kw_due == <<"d", "u", "e">>
kw_amount == <<"a", "m", "o", "u", "n", "t">>
kw_price == <<"p", "r", "i", "c", "e">>
kw_cost == <<"c", "o", "s", "t">>
kw_total == <<"t", "o", "t", "a", "l">>
kw_count == <<"c", "o", "u", "n", "t">>
kw_quantity == <<"q", "u", "a", "n", "t", "i", "t", "y">>
kw_age == <<"a", "g", "e">>
kw_number == <<"n", "u", "m", "b", "e", "r">>
kw_id == <<"i", "d">>
kw_is == <<"i", "s">>
kw_has == <<"h", "a", "s">>
kw_active == <<"a", "c", "t", "i", "v", "e">>
kw_enabled == <<"e", "n", "a", "b", "l", "e", "d">>
kw_visible == <<"v", "i", "s", "i", "b", "l", "e">>
kw_required == <<"r", "e", "q", "u", "i", "r", "e", "d">>
kw_url == <<"u", "r", "l">>
kw_link == <<"l", "i", "n", "k">>
kw_website == <<"w", "e", "b", "s", "i", "t", "e">>

\* A plausible slip: the boolean test placed before the number test.
inferFieldType_booleanFirst(fieldNameArg) ==
  LET name == toLowerCase(fieldNameArg) IN
  IF includes(name, kw_email) \/ includes(name, kw_mail) THEN "email"
  ELSE IF includes(name, kw_phone) \/ includes(name, kw_tel)
          \/ includes(name, kw_mobile) THEN "phone"
  ELSE IF includes(name, kw_date) \/ includes(name, kw_time)
          \/ includes(name, kw_created) \/ includes(name, kw_updated)
          \/ includes(name, kw_birth) \/ includes(name, kw_due) THEN "date"
  ELSE IF includes(name, kw_is) \/ includes(name, kw_has)
          \/ includes(name, kw_active) \/ includes(name, kw_enabled)
          \/ includes(name, kw_visible) \/ includes(name, kw_required) THEN "boolean"
  ELSE IF includes(name, kw_amount) \/ includes(name, kw_price)
          \/ includes(name, kw_cost) \/ includes(name, kw_total)
          \/ includes(name, kw_count) \/ includes(name, kw_quantity)
          \/ includes(name, kw_age) \/ includes(name, kw_number)
          \/ includes(name, kw_id) THEN "number"
  ELSE IF includes(name, kw_url) \/ includes(name, kw_link)
          \/ includes(name, kw_website) THEN "url"
  ELSE "text"

inferFieldType(fieldNameArg) ==
  LET name == toLowerCase(fieldNameArg) IN
  IF includes(name, kw_email) \/ includes(name, kw_mail) THEN "email"
  ELSE IF includes(name, kw_phone) \/ includes(name, kw_tel)
          \/ includes(name, kw_mobile) THEN "phone"
  ELSE IF includes(name, kw_date) \/ includes(name, kw_time)
          \/ includes(name, kw_created) \/ includes(name, kw_updated)
          \/ includes(name, kw_birth) \/ includes(name, kw_due) THEN "date"
  ELSE IF includes(name, kw_amount) \/ includes(name, kw_price)
          \/ includes(name, kw_cost) \/ includes(name, kw_total)
          \/ includes(name, kw_count) \/ includes(name, kw_quantity)
          \/ includes(name, kw_age) \/ includes(name, kw_number)
          \/ includes(name, kw_id) THEN "number"
  ELSE IF includes(name, kw_is) \/ includes(name, kw_has)
          \/ includes(name, kw_active) \/ includes(name, kw_enabled)
          \/ includes(name, kw_visible) \/ includes(name, kw_required) THEN "boolean"
  ELSE IF includes(name, kw_url) \/ includes(name, kw_link)
          \/ includes(name, kw_website) THEN "url"
  ELSE "text"

----------------------------------------------------------------------------
(* Lexemes of a document text.                                             *)
(*   simple : {{ident}}            matched by patterns.simpleField         *)
(*   nested : {{ident.ident...}}   matched by patterns.nestedField         *)
(*   open   : {{#if e}}, {{#unless e}}, {{#each e}}, {{#with e}}           *)
(*   close  : {{/if}}, {{/unless}}, {{/each}}, {{/with}}                   *)
(*   plain  : any other text                                               *)
(* s is capture group 1 (the identifier, the dotted path or the            *)
(* expression after trim()).                                               *)

Simple(n)  == [k |-> "simple", b |-> "", s |-> n]
Nested(p)  == [k |-> "nested", b |-> "", s |-> p]
Open(b, e) == [k |-> "open", b |-> b, s |-> e]
Close(b)   == [k |-> "close", b |-> b, s |-> <<>>]
Plain      == [k |-> "plain", b |-> "", s |-> <<>>]

\* the null returned by exec when no match is left
noMatch == [found |-> FALSE]

\* A plausible slip: the field patterns applied to the text outside block
\* bodies only, the bodies being left to the sub-parses.
execField_outsideBlocks(kind, txt, lastIndex) ==
  LET inBody(i) == \E o \in 1..(i - 1) : \E c \in (i + 1)..Len(txt) :
                     /\ txt[o].k = "open"
                     /\ txt[c].k = "close" /\ txt[c].b = txt[o].b
      cand == {i \in (lastIndex + 1)..Len(txt) : txt[i].k = kind /\ ~inBody(i)}
  IN IF cand = {} THEN noMatch
     ELSE LET i == Min(cand)
          IN [found |-> TRUE, index |-> i, g1 |-> txt[i].s, lastIndex |-> i]

\* RegExp.prototype.exec of patterns.simpleField / patterns.nestedField, a
\* global pattern: the leftmost match at or after lastIndex, or null.
\* lastIndex counts the lexemes already consumed.
execField(kind, txt, lastIndex) ==
  LET cand == {i \in (lastIndex + 1)..Len(txt) : txt[i].k = kind} IN
  IF cand = {} THEN noMatch
  ELSE LET i == Min(cand)
       IN [found |-> TRUE, index |-> i, g1 |-> txt[i].s, lastIndex |-> i]

IsClose(txt, j, b) == txt[j].k = "close" /\ txt[j].b = b

\* A plausible slip: the whole match (match[0]) taken for the block content
\* instead of capture group 2.
execBlock_wholeMatch(b, txt, lastIndex) ==
  LET cand == {i \in (lastIndex + 1)..Len(txt) :
                 /\ txt[i].k = "open" /\ txt[i].b = b
                 /\ \E j \in (i + 1)..Len(txt) :
                      txt[j].k = "close" /\ txt[j].b = b} IN
  IF cand = {} THEN noMatch
  ELSE LET i == Min(cand)
           j == Min({m \in (i + 1)..Len(txt) : txt[m].k = "close" /\ txt[m].b = b})
       IN [found |-> TRUE, index |-> i, g1 |-> txt[i].s,
           g2 |-> SubSeq(txt, i, j), lastIndex |-> j]

\* A plausible slip: the body matched greedily ([\s\S]* for [\s\S]*?), so
\* that it runs to the last closing tag of the kind.
execBlock_greedy(b, txt, lastIndex) ==
  LET cand == {i \in (lastIndex + 1)..Len(txt) :
                 /\ txt[i].k = "open" /\ txt[i].b = b
                 /\ \E j \in (i + 1)..Len(txt) :
                      txt[j].k = "close" /\ txt[j].b = b} IN
  IF cand = {} THEN noMatch
  ELSE LET i == Min(cand)
           j == CHOOSE m \in (i + 1)..Len(txt) :
                  /\ txt[m].k = "close" /\ txt[m].b = b
                  /\ \A n \in (m + 1)..Len(txt) :
                       ~(txt[n].k = "close" /\ txt[n].b = b)
       IN [found |-> TRUE, index |-> i, g1 |-> txt[i].s,
           g2 |-> SubSeq(txt, i + 1, j - 1), lastIndex |-> j]

\* A plausible slip: the closing tag made optional, so that an opener without
\* one matches with the rest of the text as its body.
execBlock_toEnd(b, txt, lastIndex) ==
  LET cand == {i \in (lastIndex + 1)..Len(txt) :
                 txt[i].k = "open" /\ txt[i].b = b} IN
  IF cand = {} THEN noMatch
  ELSE LET i == Min(cand)
           closes == {m \in (i + 1)..Len(txt) : IsClose(txt, m, b)}
           j == IF closes = {} THEN Len(txt) + 1 ELSE Min(closes)
       IN [found |-> TRUE, index |-> i, g1 |-> txt[i].s,
           g2 |-> SubSeq(txt, i + 1, j - 1),
           lastIndex |-> IF closes = {} THEN Len(txt) ELSE j]

\* exec of patterns.conditional / loop / unless / with: the leftmost opener
\* of kind b at or after lastIndex that is followed by a closing tag of the
\* same kind; the lazy body ([\s\S]*?) ends at the first such closing tag.
execBlock(b, txt, lastIndex) ==
  LET cand == {i \in (lastIndex + 1)..Len(txt) :
                 /\ txt[i].k = "open" /\ txt[i].b = b
                 /\ \E j \in (i + 1)..Len(txt) : IsClose(txt, j, b)} IN
  IF cand = {} THEN noMatch
  ELSE LET i == Min(cand)
           j == Min({m \in (i + 1)..Len(txt) : IsClose(txt, m, b)})
       IN [found |-> TRUE, index |-> i, g1 |-> txt[i].s,
           g2 |-> SubSeq(txt, i + 1, j - 1), lastIndex |-> j]

----------------------------------------------------------------------------
(* fieldMap: a Map, kept as the sequence of its entries in insertion order *)

MapHas(m, key) == \E i \in 1..Len(m) : m[i].key = key

\* Map.prototype.set
MapSet(m, key, value) ==
  IF MapHas(m, key)
    THEN [i \in 1..Len(m) |->
            IF m[i].key = key THEN [key |-> key, value |-> value] ELSE m[i]]
    ELSE Append(m, [key |-> key, value |-> value])

\* Array.from(fieldMap.values())
MapValues(m) == [i \in 1..Len(m) |-> m[i].value]

\* A plausible slip: the has() test left out, so a later occurrence overwrites.
setIfAbsent_overwrite(m, key, value) == MapSet(m, key, value)

\* if (!fieldMap.has(key)) { fieldMap.set(key, value) }
setIfAbsent(m, key, value) ==
  IF MapHas(m, key) THEN m ELSE MapSet(m, key, value)

RECURSIVE mergeEntries(_, _)
\* the body of fields.forEach(...) applied to the entries in order
mergeEntries(m, entries) ==
  IF entries = <<>> THEN m
  ELSE mergeEntries(setIfAbsent(m, Head(entries).key, Head(entries).value),
                    Tail(entries))

\* Array.prototype.includes / push for nestedObjects
pushIfAbsent(arr, v) ==
  IF \E i \in 1..Len(arr) : arr[i] = v THEN arr ELSE Append(arr, v)

----------------------------------------------------------------------------
(* String helpers of the parser *)

dot == <<".">>
str_NOT == <<"N", "O", "T", " ">>
str_NestedFieldFrom == <<"N", "e", "s", "t", "e", "d", " ", "f", "i", "e", "l", "d", " ", "f", "r", "o", "m", " ">>
str_FieldWithin == <<"F", "i", "e", "l", "d", " ", "w", "i", "t", "h", "i", "n", " ">>
str_context == <<" ", "c", "o", "n", "t", "e", "x", "t">>

RECURSIVE split(_)
\* String.prototype.split(".")
split(s) ==
  IF \A i \in 1..Len(s) : s[i] # "."
    THEN <<s>>
    ELSE LET d == Min({i \in 1..Len(s) : s[i] = "."})
         IN <<SubSeq(s, 1, d - 1)>> \o split(SubSeq(s, d + 1, Len(s)))

RECURSIVE join(_)
\* Array.prototype.join(".")
join(parts) ==
  IF parts = <<>> THEN <<>>
  ELSE IF Len(parts) = 1 THEN parts[1]
  ELSE parts[1] \o dot \o join(Tail(parts))

----------------------------------------------------------------------------
(* parseDocumenteroTemplate *)

absent == <<>>   \* an optional string property that is not set

\* the state of one invocation: its local collections and counter
emptyParse ==
  [fieldMap |-> <<>>, conditionals |-> <<>>, loops |-> <<>>,
   nestedObjects |-> <<>>, totalPlaceholders |-> 0]

\* the TemplateField built by the simple-field pass
simpleFieldOf(name) ==
  [name |-> name, type |-> inferFieldType(name), required |-> TRUE,
   path |-> absent, isNested |-> FALSE, isConditional |-> FALSE,
   isLoop |-> FALSE, condition |-> absent, loopVariable |-> absent,
   description |-> absent]

\* the TemplateField built by the nested-field pass
nestedFieldOf(fullPath) ==
  LET pathParts == split(fullPath)
      name == pathParts[Len(pathParts)]
      objectPath == join(SubSeq(pathParts, 1, Len(pathParts) - 1))
  IN [name |-> name, type |-> inferFieldType(name), required |-> TRUE,
      path |-> fullPath, isNested |-> TRUE, isConditional |-> FALSE,
      isLoop |-> FALSE, condition |-> absent, loopVariable |-> absent,
      description |-> str_NestedFieldFrom \o objectPath]

objectPathOf(fullPath) ==
  LET pathParts == split(fullPath)
  IN join(SubSeq(pathParts, 1, Len(pathParts) - 1))

\* A plausible slip: the key taken from the name alone.
dedupKey_nameOnly(field) == field.name

\* const key = field.path || field.name
dedupKey(field) == IF field.path # absent THEN field.path ELSE field.name

\* { ...field, isConditional: true, condition, required: false }
conditionalField(field, condition) ==
  [field EXCEPT !.isConditional = TRUE, !.condition = condition,
                !.required = FALSE]

\* { ...field, isLoop: true, loopVariable, required: false }
loopField(field, loopVariable) ==
  [field EXCEPT !.isLoop = TRUE, !.loopVariable = loopVariable,
                !.required = FALSE]

\* A plausible slip: the context always prepended to the name, an existing
\* path ignored.
contextualField_nameOnly(field, contextObject) ==
  [field EXCEPT !.path = contextObject \o dot \o field.name,
                !.isNested = TRUE,
                !.description = str_FieldWithin \o contextObject \o str_context]

\* { ...field, path: field.path ? ctx.path : ctx.name, isNested: true, description }
contextualField(field, contextObject) ==
  [field EXCEPT !.path = IF field.path # absent
                           THEN contextObject \o dot \o field.path
                           ELSE contextObject \o dot \o field.name,
                !.isNested = TRUE,
                !.description = str_FieldWithin \o contextObject \o str_context]

RECURSIVE simpleFieldPass_countNew(_, _, _)
\* A plausible slip: totalPlaceholders++ placed inside the has() test, so that
\* only new names are counted.
simpleFieldPass_countNew(txt, lastIndex, st) ==
  LET match == execField("simple", txt, lastIndex) IN
  IF ~match.found THEN st
  ELSE simpleFieldPass_countNew(txt, match.lastIndex,
         IF MapHas(st.fieldMap, match.g1) THEN st
         ELSE [st EXCEPT !.totalPlaceholders = @ + 1,
                         !.fieldMap = MapSet(@, match.g1, simpleFieldOf(match.g1))])

RECURSIVE simpleFieldPass(_, _, _)
\* while ((match = patterns.simpleField.exec(text)) !== null) { ... }
simpleFieldPass(txt, lastIndex, st) ==
  LET match == execField("simple", txt, lastIndex) IN
  IF ~match.found THEN st
  ELSE simpleFieldPass(txt, match.lastIndex,
         [st EXCEPT !.totalPlaceholders = @ + 1,
                    !.fieldMap = setIfAbsent(@, match.g1, simpleFieldOf(match.g1))])

RECURSIVE nestedFieldPass(_, _, _)
\* while ((match = patterns.nestedField.exec(text)) !== null) { ... }
nestedFieldPass(txt, lastIndex, st) ==
  LET match == execField("nested", txt, lastIndex) IN
  IF ~match.found THEN st
  ELSE LET fullPath == match.g1 IN
       nestedFieldPass(txt, match.lastIndex,
         IF MapHas(st.fieldMap, fullPath)
           THEN [st EXCEPT !.totalPlaceholders = @ + 1]
           ELSE [st EXCEPT !.totalPlaceholders = @ + 1,
                           !.fieldMap = MapSet(@, fullPath, nestedFieldOf(fullPath)),
                           !.nestedObjects = pushIfAbsent(@, objectPathOf(fullPath))])

RECURSIVE parseDocumenteroTemplate(_)
RECURSIVE conditionalPass(_, _, _)
RECURSIVE loopPass(_, _, _)
RECURSIVE unlessPass(_, _, _)
RECURSIVE withPass(_, _, _)

\* while ((match = patterns.conditional.exec(text)) !== null) { ... }
conditionalPass(txt, lastIndex, st) ==
  LET match == execBlock("if", txt, lastIndex) IN
  IF ~match.found THEN st
  ELSE LET condition == match.g1
           conditionalFields == parseDocumenteroTemplate(match.g2)
           entries == [i \in 1..Len(conditionalFields.fields) |->
                         [key |-> dedupKey(conditionalFields.fields[i]),
                          value |-> conditionalField(conditionalFields.fields[i],
                                                     condition)]]
       IN conditionalPass(txt, match.lastIndex,
            [st EXCEPT !.totalPlaceholders = @ + 1,
                       !.conditionals = Append(@, condition),
                       !.fieldMap = mergeEntries(@, entries)])

\* while ((match = patterns.loop.exec(text)) !== null) { ... }
loopPass(txt, lastIndex, st) ==
  LET match == execBlock("each", txt, lastIndex) IN
  IF ~match.found THEN st
  ELSE LET loopVariable == match.g1
           loopFields == parseDocumenteroTemplate(match.g2)
           entries == [i \in 1..Len(loopFields.fields) |->
                         [key |-> dedupKey(loopFields.fields[i]),
                          value |-> loopField(loopFields.fields[i], loopVariable)]]
       IN loopPass(txt, match.lastIndex,
            [st EXCEPT !.totalPlaceholders = @ + 1,
                       !.loops = Append(@, loopVariable),
                       !.fieldMap = mergeEntries(@, entries)])

\* while ((match = patterns.unless.exec(text)) !== null) { ... }
unlessPass(txt, lastIndex, st) ==
  LET match == execBlock("unless", txt, lastIndex) IN
  IF ~match.found THEN st
  ELSE LET condition == match.g1
           unlessFields == parseDocumenteroTemplate(match.g2)
           entries == [i \in 1..Len(unlessFields.fields) |->
                         [key |-> dedupKey(unlessFields.fields[i]),
                          value |-> conditionalField(unlessFields.fields[i],
                                                     str_NOT \o condition)]]
       IN unlessPass(txt, match.lastIndex,
            [st EXCEPT !.totalPlaceholders = @ + 1,
                       !.conditionals = Append(@, str_NOT \o condition),
                       !.fieldMap = mergeEntries(@, entries)])

\* while ((match = patterns.with.exec(text)) !== null) { ... }
withPass(txt, lastIndex, st) ==
  LET match == execBlock("with", txt, lastIndex) IN
  IF ~match.found THEN st
  ELSE LET contextObject == match.g1
           withFields == parseDocumenteroTemplate(match.g2)
           entries == [i \in 1..Len(withFields.fields) |->
                         LET cf == contextualField(withFields.fields[i], contextObject)
                         IN [key |-> cf.path, value |-> cf]]
       IN withPass(txt, match.lastIndex,
            [st EXCEPT !.totalPlaceholders = @ + 1,
                       !.nestedObjects = pushIfAbsent(@, contextObject),
                       !.fieldMap = mergeEntries(@, entries)])

\* A plausible slip: the unless pass moved before the loop pass.
parseDocumenteroTemplate_unlessFirst(txt) ==
  LET s1 == simpleFieldPass(txt, 0, emptyParse)
      s2 == nestedFieldPass(txt, 0, s1)
      s3 == conditionalPass(txt, 0, s2)
      s4 == unlessPass(txt, 0, s3)
      s5 == loopPass(txt, 0, s4)
      s6 == withPass(txt, 0, s5)
  IN [fields |-> MapValues(s6.fieldMap),
      conditionals |-> s6.conditionals,
      loops |-> s6.loops,
      nestedObjects |-> s6.nestedObjects,
      totalPlaceholders |-> s6.totalPlaceholders]

\* The six passes in source order, each with patterns of its own invocation
\* (lastIndex 0), then the map converted to the field array.
parseDocumenteroTemplate(txt) ==
  LET s1 == simpleFieldPass(txt, 0, emptyParse)
      s2 == nestedFieldPass(txt, 0, s1)
      s3 == conditionalPass(txt, 0, s2)
      s4 == loopPass(txt, 0, s3)
      s5 == unlessPass(txt, 0, s4)
      s6 == withPass(txt, 0, s5)
  IN [fields |-> MapValues(s6.fieldMap),
      conditionals |-> s6.conditionals,
      loops |-> s6.loops,
      nestedObjects |-> s6.nestedObjects,
      totalPlaceholders |-> s6.totalPlaceholders]

----------------------------------------------------------------------------
(* parseDocumenteroTemplate one loop iteration at a time: the call stack   *)
(* of its invocations. An invocation holds its text, the pass it is in,    *)
(* the lastIndex of each of its pattern objects, its local collections and *)
(* the block match whose body it has handed to a sub-parse.                *)

\* the passes in the order of the source
PassOrder == <<"simpleField", "nestedField", "conditional", "loop", "unless", "with">>

PassIndex(pass) == CHOOSE i \in 1..Len(PassOrder) : PassOrder[i] = pass

\* the statement after the while loop of a pass: the next loop, or the return
nextPass(pass) ==
  IF PassIndex(pass) = Len(PassOrder) THEN "return"
  ELSE PassOrder[PassIndex(pass) + 1]

\* the block tag each block pattern matches
blockKindOf(pass) ==
  CASE pass = "conditional" -> "if" [] pass = "loop" -> "each"
    [] pass = "unless" -> "unless" [] pass = "with" -> "with"

\* const patterns = { ... }: pattern objects as the literal creates them,
\* each with lastIndex 0
patterns ==
  [simpleField |-> 0, nestedField |-> 0, conditional |-> 0, loop |-> 0,
   unless |-> 0, with |-> 0]

\* A plausible slip: the patterns hoisted out of the function, so that a
\* sub-parse scans with the cursors its caller has reached.
newPatterns_shared(callerPatterns) == callerPatterns

\* the patterns of a new invocation: the literal is evaluated in the body of
\* parseDocumenteroTemplate, so they are new objects whatever the caller's are
newPatterns(callerPatterns) == patterns

\* the invocation parseDocumenteroTemplate(txt) at its first statement
invocation(txt, callerPatterns) ==
  [text |-> txt, pass |-> "simpleField", patterns |-> newPatterns(callerPatterns),
   st |-> emptyParse, match |-> noMatch]

\* the value the return statement builds
returnValue(st) ==
  [fields |-> MapValues(st.fieldMap),
   conditionals |-> st.conditionals,
   loops |-> st.loops,
   nestedObjects |-> st.nestedObjects,
   totalPlaceholders |-> st.totalPlaceholders]

\* one iteration of the simple-field or nested-field loop, or its exit
fieldStep(fr) ==
  LET kind == IF fr.pass = "simpleField" THEN "simple" ELSE "nested"
      match == execField(kind, fr.text, fr.patterns[fr.pass])
  IN IF ~match.found
       THEN [fr EXCEPT !.pass = nextPass(fr.pass), !.patterns[fr.pass] = 0]
     ELSE IF fr.pass = "simpleField"
       THEN [fr EXCEPT
               !.patterns[fr.pass] = match.lastIndex,
               !.st.totalPlaceholders = @ + 1,
               !.st.fieldMap = setIfAbsent(@, match.g1, simpleFieldOf(match.g1))]
     ELSE IF MapHas(fr.st.fieldMap, match.g1)
       THEN [fr EXCEPT
               !.patterns[fr.pass] = match.lastIndex,
               !.st.totalPlaceholders = @ + 1]
     ELSE [fr EXCEPT
             !.patterns[fr.pass] = match.lastIndex,
             !.st.totalPlaceholders = @ + 1,
             !.st.fieldMap = MapSet(@, match.g1, nestedFieldOf(match.g1)),
             !.st.nestedObjects = pushIfAbsent(@, objectPathOf(match.g1))]

\* a block loop up to its recursive call: the match is taken, counted and
\* recorded; the caller then waits for the sub-parse of match[2]
blockStep(fr, match) ==
  LET counted == [fr EXCEPT !.patterns[fr.pass] = match.lastIndex,
                            !.match = match,
                            !.st.totalPlaceholders = @ + 1]
  IN CASE fr.pass = "conditional" ->
            [counted EXCEPT !.st.conditionals = Append(@, match.g1)]
       [] fr.pass = "loop" ->
            [counted EXCEPT !.st.loops = Append(@, match.g1)]
       [] fr.pass = "unless" ->
            [counted EXCEPT !.st.conditionals = Append(@, str_NOT \o match.g1)]
       [] fr.pass = "with" ->
            [counted EXCEPT !.st.nestedObjects = pushIfAbsent(@, match.g1)]

\* the entries the forEach after the recursive call offers to fieldMap
entriesOf(pass, g1, fs) ==
  [i \in 1..Len(fs) |->
     CASE pass = "conditional" ->
            [key |-> dedupKey(fs[i]), value |-> conditionalField(fs[i], g1)]
       [] pass = "loop" ->
            [key |-> dedupKey(fs[i]), value |-> loopField(fs[i], g1)]
       [] pass = "unless" ->
            [key |-> dedupKey(fs[i]),
             value |-> conditionalField(fs[i], str_NOT \o g1)]
       [] pass = "with" ->
            [key |-> contextualField(fs[i], g1).path,
             value |-> contextualField(fs[i], g1)]]

\* the rest of a block loop iteration, once the sub-parse has returned result
resume(fr, result) ==
  [fr EXCEPT !.match = noMatch,
             !.st.fieldMap = mergeEntries(@, entriesOf(fr.pass, fr.match.g1,
                                                        result.fields))]

----------------------------------------------------------------------------
(* docxTemplateUtils.js: validator and table synthesizer *)

\* DOCX_TO_BUDIBASE_TYPE_MAP, an object literal
DOCX_TO_BUDIBASE_TYPE_MAP ==
  [text |-> "string", email |-> "string", phone |-> "string",
   number |-> "number", date |-> "datetime", boolean |-> "boolean",
   url |-> "string"]

\* property names every object literal inherits from Object.prototype
ObjectPrototypeKeys ==
  {"constructor", "toString", "valueOf", "hasOwnProperty", "__proto__"}

undefined == "undefined"

\* DOCX_TO_BUDIBASE_TYPE_MAP[type]: an own entry, an inherited member
\* (a function, truthy) or undefined
typeMapLookup(type) ==
  IF type \in DOMAIN DOCX_TO_BUDIBASE_TYPE_MAP THEN DOCX_TO_BUDIBASE_TYPE_MAP[type]
  ELSE IF type \in ObjectPrototypeKeys THEN "inherited_function"
  ELSE undefined

isComplex(field) == field.isNested \/ field.isConditional \/ field.isLoop

\* A plausible slip: the flags tested in another order, conditional first.
warningOf_conditionalFirst(field) ==
  IF isComplex(field)
    THEN [kind |-> "Skipped complex field", name |-> field.name,
          detail |-> IF field.isConditional THEN "conditional"
                     ELSE IF field.isNested THEN "nested"
                     ELSE "loop"]
    ELSE [kind |-> "Skipped unsupported field type", name |-> field.name,
          detail |-> field.type]

\* the warning pushed for a skipped field: which template literal, the field
\* name and the text in parentheses (the first flag set, or the field type)
warningOf(field) ==
  IF isComplex(field)
    THEN [kind |-> "Skipped complex field", name |-> field.name,
          detail |-> IF field.isNested THEN "nested"
                     ELSE IF field.isConditional THEN "conditional"
                     ELSE "loop"]
    ELSE [kind |-> "Skipped unsupported field type", name |-> field.name,
          detail |-> field.type]

emptyValidation ==
  [compatibleFields |-> <<>>, skippedFields |-> <<>>, warnings |-> <<>>]

\* A plausible slip: a field of unsupported type dropped without being
\* recorded as skipped.
validateStep_dropUnsupported(acc, field) ==
  IF isComplex(field)
    THEN [acc EXCEPT !.skippedFields = Append(@, field),
                     !.warnings = Append(@, warningOf(field))]
  ELSE IF typeMapLookup(field.type) = undefined
    THEN acc
  ELSE [acc EXCEPT !.compatibleFields = Append(@, field)]

\* the body of fields.forEach in validateDocxFieldsForPhase1
validateStep(acc, field) ==
  IF isComplex(field)
    THEN [acc EXCEPT !.skippedFields = Append(@, field),
                     !.warnings = Append(@, warningOf(field))]
  ELSE IF typeMapLookup(field.type) = undefined
    THEN [acc EXCEPT !.skippedFields = Append(@, field),
                     !.warnings = Append(@, warningOf(field))]
  ELSE [acc EXCEPT !.compatibleFields = Append(@, field)]

RECURSIVE validateLoop(_, _)
validateLoop(acc, fs) ==
  IF fs = <<>> THEN acc ELSE validateLoop(validateStep(acc, Head(fs)), Tail(fs))

validateDocxFieldsForPhase1(fs) ==
  LET r == validateLoop(emptyValidation, fs)
  IN [compatibleFields |-> r.compatibleFields,
      skippedFields |-> r.skippedFields,
      warnings |-> r.warnings,
      hasCompatibleFields |-> Len(r.compatibleFields) > 0]

str_id == <<"_", "i", "d">>
str___proto__ == <<"_", "_", "p", "r", "o", "t", "o", "_", "_">>

\* schema[key] = value on an object literal: an own property is added or
\* replaced in place, except that the key __proto__ is the inherited
\* accessor, which sets the prototype and adds no own property
assignProperty(obj, key, value) ==
  IF key = str___proto__ THEN obj ELSE MapSet(obj, key, value)

\* schema._id = { name: "_id", type: STRING, autocolumn: true, constraints: { presence: false } }
idColumn ==
  [name |-> str_id, type |-> "string", autocolumn |-> TRUE, presence |-> FALSE,
   email |-> FALSE, url |-> FALSE, dateOnly |-> FALSE]

\* the column assigned to schema[field.name]
columnOf(field) ==
  [name |-> field.name,
   type |-> IF typeMapLookup(field.type) = undefined
              THEN "string" ELSE typeMapLookup(field.type),
   autocolumn |-> FALSE,
   presence |-> field.required,
   email |-> field.type = "email",
   url |-> field.type = "url",
   dateOnly |-> field.type = "date"]

\* the body of fields.forEach in createTableFromDocxFields
schemaStep(schema, field) ==
  IF isComplex(field) THEN schema
  ELSE assignProperty(schema, field.name, columnOf(field))

RECURSIVE schemaLoop(_, _)
schemaLoop(schema, fs) ==
  IF fs = <<>> THEN schema ELSE schemaLoop(schemaStep(schema, Head(fs)), Tail(fs))

\* fields.find(f => f.type === "text")?.name || "_id"
primaryDisplayOf(fs) ==
  LET hits == {i \in 1..Len(fs) : fs[i].type = "text"} IN
  IF hits = {} THEN str_id
  ELSE IF fs[Min(hits)].name = <<>> THEN str_id
  ELSE fs[Min(hits)].name

createTableFromDocxFields(fs, tableName) ==
  [_id |-> "ta_generated", name |-> tableName, type |-> "table",
   schema |-> schemaLoop(assignProperty(<<>>, str_id, idColumn), fs),
   primaryDisplay |-> primaryDisplayOf(fs)]

----------------------------------------------------------------------------
(* docxTemplateUtils.js: form component and screen synthesizer *)

\* DOCX_TO_COMPONENT_MAP, an object literal
DOCX_TO_COMPONENT_MAP ==
  [text |-> "stringfield", email |-> "stringfield", phone |-> "stringfield",
   number |-> "numberfield", date |-> "datetimefield",
   boolean |-> "booleanfield", url |-> "stringfield"]

\* DOCX_TO_COMPONENT_MAP[type] || "stringfield"
componentTypeOf(type) ==
  IF type \in DOMAIN DOCX_TO_COMPONENT_MAP THEN DOCX_TO_COMPONENT_MAP[type]
  ELSE IF type \in ObjectPrototypeKeys THEN "inherited_function"
  ELSE "stringfield"

standardComponents == "@budibase/standard-components/"

\* new Component(type, id): the builder that collects the component's JSON
Component(type, id) ==
  [_id |-> id, _component |-> type, _instanceName |-> <<>>, _children |-> <<>>]

\* Component.instanceName(name)
instanceName(c, name) == [c EXCEPT !._instanceName = name]

\* Component.customProps(props): the properties are merged into the JSON,
\* a later value replacing an earlier one of the same name
customProps(c, props) ==
  [k \in (DOMAIN c) \cup (DOMAIN props) |->
     IF k \in DOMAIN props THEN props[k] ELSE c[k]]

\* Component.addChild(json)
addChild(c, child) == [c EXCEPT !._children = Append(@, child)]

\* Component.json()
json(c) == c

str_Enter == <<"E", "n", "t", "e", "r", " ">>
str_EnterEmailAddress ==
  str_Enter \o <<"e", "m", "a", "i", "l", " ", "a", "d", "d", "r", "e", "s", "s">>
str_EnterPhoneNumber ==
  str_Enter \o <<"p", "h", "o", "n", "e", " ", "n", "u", "m", "b", "e", "r">>
str_EnterURL == str_Enter \o <<"U", "R", "L">>

\* the component built for one field, type-specific properties included
componentOf(field) ==
  LET base ==
        customProps(
          instanceName(
            Component(standardComponents \o componentTypeOf(field.type), "generated"),
            field.name),
          [field |-> field.name, label |-> field.name,
           placeholder |-> str_Enter \o field.name,
           disabled |-> FALSE, readonly |-> FALSE])
  IN IF field.type = "email"
       THEN customProps(base, [placeholder |-> str_EnterEmailAddress])
     ELSE IF field.type = "phone"
       THEN customProps(base, [placeholder |-> str_EnterPhoneNumber])
     ELSE IF field.type = "url"
       THEN customProps(base, [placeholder |-> str_EnterURL])
     ELSE IF field.type = "boolean"
       THEN customProps(base, [text |-> field.name, label |-> <<>>])
     ELSE IF field.type = "date"
       THEN customProps(base, [enableTime |-> FALSE, timeOnly |-> FALSE,
                               ignoreTimezones |-> FALSE])
     ELSE base

\* the body of fields.forEach in createFormComponentsFromDocxFields
componentStep(components, field) ==
  IF isComplex(field) THEN components
  ELSE Append(components, componentOf(field))

RECURSIVE componentLoop(_, _)
componentLoop(components, fs) ==
  IF fs = <<>> THEN components
  ELSE componentLoop(componentStep(components, Head(fs)), Tail(fs))

createFormComponentsFromDocxFields(fs, tableId) == componentLoop(<<>>, fs)

RECURSIVE addChildren(_, _)
\* formComponents.forEach(component => formBlock.addChild(component.json()))
addChildren(block, components) ==
  IF components = <<>> THEN block
  ELSE addChildren(addChild(block, json(Head(components))), Tail(components))

\* String.prototype.replace(/\s+/g, "-"): each run of blanks becomes one dash
replaceWhitespace(str) ==
  LET marked == [i \in 1..Len(str) |->
                   IF str[i] # " " THEN str[i]
                   ELSE IF i = 1 \/ str[i - 1] # " " THEN "-"
                   ELSE ""]
  IN SelectSeq(marked, LAMBDA ch : ch # "")

str_Data == <<" ", "D", "a", "t", "a">>
str_Form == <<" ", "F", "o", "r", "m">>
str_FormBlock == <<" ", "-", " ", "F", "o", "r", "m", " ", "b", "l", "o", "c", "k">>
str_Screen == <<" ", "S", "c", "r", "e", "e", "n">>

createScreenFromDocxTemplate(templateData, workspaceAppId) ==
  LET name == templateData.name
      tbl == createTableFromDocxFields(templateData.fields, name \o str_Data)
      formComponents == createFormComponentsFromDocxFields(templateData.fields, tbl._id)
      formId == "form_" \o tbl._id
      formBlock ==
        instanceName(
          customProps(
            Component(standardComponents \o "formblock", formId),
            [dataSource |-> [label |-> tbl.name, tableId |-> tbl._id, type |-> "table"],
             actionType |-> "Create",
             title |-> name \o str_Form,
             buttonPosition |-> "bottom"]),
          name \o str_FormBlock)
  IN [table |-> tbl,
      screen |->
        [_id |-> "screen_" \o tbl._id,
         routing |-> [route |-> <<"/">> \o replaceWhitespace(toLowerCase(name)),
                      roleId |-> "BASIC"],
         props |-> [_id |-> "screen_" \o tbl._id,
                    _component |-> standardComponents \o "screenslotwrapper",
                    _instanceName |-> name \o str_Screen,
                    _children |-> <<json(addChildren(formBlock, formComponents))>>]]]

----------------------------------------------------------------------------
(* Inputs *)

MaxTextLen == 4    \* longest document text built from Lexemes
MaxFields == 3     \* longest field list built from FieldUniverse

s_age == <<"a", "g", "e">>
s_name == <<"n", "a", "m", "e">>
s_c == <<"c">>
s_a == <<"a">>
s_b == <<"b">>
s_x == <<"x">>
s_id == <<"i", "d">>
s_items == <<"i", "t", "e", "m", "s">>
s_itemName == <<"i", "t", "e", "m", "N", "a", "m", "e">>
s_customer == <<"c", "u", "s", "t", "o", "m", "e", "r">>
s_address == <<"a", "d", "d", "r", "e", "s", "s">>
s_street == <<"s", "t", "r", "e", "e", "t">>
s_notes == <<"n", "o", "t", "e", "s">>
s_firstName == <<"f", "i", "r", "s", "t", "N", "a", "m", "e">>
s_lastName == <<"l", "a", "s", "t", "N", "a", "m", "e">>
s_email == <<"e", "m", "a", "i", "l">>
s_phone == <<"p", "h", "o", "n", "e">>
s_discount == <<"d", "i", "s", "c", "o", "u", "n", "t">>
s_hasDiscount == <<"h", "a", "s", "D", "i", "s", "c", "o", "u", "n", "t">>
s_createdDate == <<"c", "r", "e", "a", "t", "e", "d", "D", "a", "t", "e">>
s_isActive == <<"i", "s", "A", "c", "t", "i", "v", "e">>
s_customerEmail == <<"c", "u", "s", "t", "o", "m", "e", "r", "E", "m", "a", "i", "l">>
s_emailAddress == <<"e", "m", "a", "i", "l", "A", "d", "d", "r", "e", "s", "s">>
s_contactEmail == <<"c", "o", "n", "t", "a", "c", "t", "E", "m", "a", "i", "l">>
s_telephone == <<"t", "e", "l", "e", "p", "h", "o", "n", "e">>
s_mobile == <<"m", "o", "b", "i", "l", "e">>
s_date == <<"d", "a", "t", "e">>
s_birthDate == <<"b", "i", "r", "t", "h", "D", "a", "t", "e">>
s_count == <<"c", "o", "u", "n", "t">>
s_amount == <<"a", "m", "o", "u", "n", "t">>
s_price == <<"p", "r", "i", "c", "e">>
s_newsletter == <<"n", "e", "w", "s", "l", "e", "t", "t", "e", "r">>
s_website == <<"w", "e", "b", "s", "i", "t", "e">>
s_profileUrl == <<"p", "r", "o", "f", "i", "l", "e", "U", "r", "l">>
s_homepage == <<"h", "o", "m", "e", "p", "a", "g", "e">>
s_customer_name == s_customer \o dot \o s_name
s_b_c == s_b \o dot \o s_c
s_a_b_c == s_a \o dot \o s_b \o dot \o s_c
s_customer_address_street == s_customer \o dot \o s_address \o dot \o s_street

BlockKinds == {"if", "unless", "each", "with"}

\* the lexemes every bounded text is built from
Lexemes ==
  {Simple(s_age), Simple(s_name), Nested(s_customer_name),
   Open("if", s_c), Open("unless", s_c), Open("each", s_items),
   Open("with", s_customer), Plain}
  \cup {Close(b) : b \in BlockKinds}

BoundedTexts == UNION {[1..n -> Lexemes] : n \in 0..MaxTextLen}

\* "{{firstName}} {{email}} {{#if hasDiscount}}{{discount}}{{/if}}"
EndToEndText ==
  <<Simple(s_firstName), Plain, Simple(s_email), Plain,
    Open("if", s_hasDiscount), Simple(s_discount), Close("if")>>

\* "{{age}} {{#if c}}{{age}}{{/if}}"
FirstWinsText ==
  <<Simple(s_age), Plain, Open("if", s_c), Simple(s_age), Close("if")>>

\* "{{#each items}}{{itemName}}{{/each}}"
LoopText == <<Open("each", s_items), Simple(s_itemName), Close("each")>>

\* "{{#with customer}}{{name}}{{/with}}"
WithText == <<Open("with", s_customer), Simple(s_name), Close("with")>>

\* "{{#with a}}{{b.c}}{{/with}}"
WithNestedText == <<Open("with", s_a), Nested(s_b_c), Close("with")>>

\* longer texts with blocks inside blocks
NestedBlockTexts ==
  { <<Open("if", s_c), Open("each", s_items), Simple(s_x), Close("each"), Close("if")>>,
    <<Open("if", s_c), Open("with", s_customer), Simple(s_name), Close("with"), Close("if")>>,
    <<Open("each", s_items), Open("unless", s_c), Simple(s_x), Nested(s_b_c),
      Close("unless"), Close("each"), Simple(s_x)>>,
    <<Open("with", s_a), Open("with", s_b), Simple(s_c), Close("with"), Close("with")>>,
    <<Open("if", s_a), Open("if", s_b), Simple(s_x), Close("if"), Simple(s_age), Close("if")>>,
    <<Open("with", s_a), Open("if", s_c), Open("each", s_items), Nested(s_b_c),
      Close("each"), Close("if"), Close("with")>>,
    <<Nested(s_customer_address_street), Plain, Open("unless", s_c),
      Simple(s_notes), Close("unless"), Open("each", s_items)>> }

\* "{{#b e}}...{{/b}}" with the expression the lexemes use for kind b
ExprOf(b) ==
  CASE b = "if" -> s_c [] b = "unless" -> s_c [] b = "each" -> s_items
    [] b = "with" -> s_customer

Wrap(b, body) == <<Open(b, ExprOf(b))>> \o body \o <<Close(b)>>

\* texts in which the scoped field customer.name is met through two blocks
\* of the kinds #if, #unless, #each: one after the other, or one in the other
PrecedenceTexts ==
  {Wrap(b1, WithText) \o Wrap(b2, WithText) : b1, b2 \in {"if", "unless", "each"}}
  \cup {Wrap(b1, Wrap(b2, WithText)) : b1, b2 \in {"if", "unless", "each"}}

\* a document with a placeholder named like the identifier column: {{firstName}} {{_id}}
IdFieldText == <<Simple(s_firstName), Simple(str_id)>>

\* a document with a placeholder named like the prototype accessor: {{__proto__}}
ProtoFieldText == <<Simple(str___proto__), Simple(s_firstName)>>

\* a line break between placeholders
Newline == [k |-> "plain", b |-> "", s |-> <<"\n">>]

\* two #if blocks one after the other, their bodies over several lines
MultiLineText ==
  <<Open("if", s_c), Newline, Simple(s_age), Newline, Close("if"), Newline,
    Open("if", s_hasDiscount), Newline, Simple(s_discount), Newline, Close("if")>>

ExampleTexts ==
  {EndToEndText, FirstWinsText, LoopText, WithText, WithNestedText, IdFieldText,
   ProtoFieldText, MultiLineText}
  \cup PrecedenceTexts
  \cup NestedBlockTexts

Texts == BoundedTexts \cup ExampleTexts

MaxStepTextLen == 3    \* longest bounded text parsed one iteration at a time

StepTexts ==
  UNION {[1..n -> Lexemes] : n \in 0..MaxStepTextLen} \cup ExampleTexts

\* a field as the uploaded template document stores it
Field(name, type, required, path, isNested, isConditional, isLoop, condition, loopVariable) ==
  [name |-> name, type |-> type, required |-> required, path |-> path,
   isNested |-> isNested, isConditional |-> isConditional, isLoop |-> isLoop,
   condition |-> condition, loopVariable |-> loopVariable, description |-> absent]

Flat(name, type, required) ==
  Field(name, type, required, absent, FALSE, FALSE, FALSE, absent, absent)

\* mockDocxTemplateData.fields
mockDocxTemplateFields ==
  <<Flat(s_firstName, "text", TRUE),
    Flat(s_lastName, "text", TRUE),
    Flat(s_email, "email", TRUE),
    Flat(s_phone, "phone", FALSE),
    Flat(s_birthDate, "date", FALSE),
    Flat(s_age, "number", FALSE),
    Flat(s_newsletter, "boolean", FALSE),
    Flat(s_website, "url", FALSE),
    Field(s_address, "text", FALSE, s_customer_address_street, TRUE, FALSE, FALSE, absent, absent),
    Field(s_discount, "number", FALSE, absent, FALSE, TRUE, FALSE, s_hasDiscount, absent),
    Field(s_itemName, "text", FALSE, absent, FALSE, FALSE, TRUE, absent, s_items)>>

\* the fields every bounded field list is built from
FieldUniverse ==
  {Flat(s_firstName, "text", TRUE),
   Flat(s_email, "email", TRUE),
   Flat(s_age, "number", FALSE),
   Flat(s_notes, "image", FALSE),
   Flat(s_x, "constructor", FALSE),
   Flat(str_id, "number", TRUE),
   Flat(s_age, "text", TRUE),
   Flat(str___proto__, "text", TRUE),
   Field(s_address, "text", FALSE, s_customer_address_street, TRUE, FALSE, FALSE, absent, absent),
   Field(s_discount, "number", FALSE, absent, FALSE, TRUE, FALSE, s_hasDiscount, absent),
   Field(s_itemName, "text", FALSE, absent, FALSE, FALSE, TRUE, absent, s_items),
   Field(s_name, "text", FALSE, s_customer_name, TRUE, TRUE, FALSE, s_c, absent),
   Field(s_x, "table", FALSE, absent, FALSE, TRUE, TRUE, s_c, s_items)}

FieldLists ==
  UNION {[1..n -> FieldUniverse] : n \in 0..MaxFields} \cup {mockDocxTemplateFields}

Keywords ==
  {kw_email, kw_mail, kw_phone, kw_tel, kw_mobile, kw_date, kw_time,
   kw_created, kw_updated, kw_birth, kw_due, kw_amount, kw_price, kw_cost,
   kw_total, kw_count, kw_quantity, kw_age, kw_number, kw_id, kw_is, kw_has,
   kw_active, kw_enabled, kw_visible, kw_required, kw_url, kw_link, kw_website}

toUpperCaseChar(ch) ==
  IF \E i \in 1..26 : LowerChars[i] = ch
    THEN UpperChars[CHOOSE i \in 1..26 : LowerChars[i] = ch]
    ELSE ch

Capitalized(s) == [i \in 1..Len(s) |-> IF i = 1 THEN toUpperCaseChar(s[i]) ELSE s[i]]
UpperCased(s) == [i \in 1..Len(s) |-> toUpperCaseChar(s[i])]

\* field names named by the template guide and the examples of the rules
GuideNames ==
  {s_email, s_emailAddress, s_contactEmail, s_phone, s_telephone, s_mobile,
   s_date, s_birthDate, s_createdDate, s_age, s_count, s_amount, s_price,
   s_isActive, s_hasDiscount, s_newsletter, s_website, s_profileUrl,
   s_homepage, s_firstName, s_lastName, s_id, s_customerEmail, s_discount,
   s_itemName, s_notes, s_x}

\* every keyword alone, in upper case, and every ordered pair of keywords
\* (the second capitalized, as in camelCase)
FieldNames ==
  GuideNames \cup Keywords \cup {UpperCased(k) : k \in Keywords}
  \cup {k1 \o Capitalized(k2) : k1 \in Keywords, k2 \in Keywords}
  \cup {s_x \o Capitalized(k) \o s_x : k \in Keywords}

tableNameOf == "Test Table"

\* mockDocxTemplateData.name and a workspace app id
templateNameOf ==
  <<"C", "u", "s", "t", "o", "m", "e", "r", " ", "R", "e", "g", "i", "s", "t",
    "r", "a", "t", "i", "o", "n", " ", "F", "o", "r", "m">>
workspaceAppIdOf == "workspace_app"

----------------------------------------------------------------------------
(* Specifications *)

\* no modal is open and no server function runs
InitIo ==
  /\ ui = null /\ tasks = <<>> /\ calls = <<>> /\ request = null /\ response = 0

InitCommon ==
  /\ parseResults = null /\ validation = null /\ table = null
  /\ screen = null /\ stack = <<>>
  /\ inferredType = "none"
  /\ InitIo

\* a document text is handed to the parser
InitParse ==
  /\ pc = "text" /\ text \in Texts /\ fields = <<>> /\ fieldName = <<>>
  /\ InitCommon

\* a stored field list is handed to the validator
InitValidate ==
  /\ pc = "fields" /\ text = <<>> /\ fields \in FieldLists /\ fieldName = <<>>
  /\ InitCommon

\* a field name is handed to the inferencer
InitInfer ==
  /\ pc = "name" /\ text = <<>> /\ fields = <<>> /\ fieldName \in FieldNames
  /\ InitCommon

\* a document text is handed to the parser, which is followed statement
\* by statement
InitSteps ==
  /\ pc = "call" /\ text \in StepTexts /\ fields = <<>> /\ fieldName = <<>>
  /\ InitCommon

\* parseResults = parseDocumenteroTemplate(documentText); parsedFields = parseResults.fields
ParseTemplate ==
  /\ pc = "text"
  /\ parseResults' = parseDocumenteroTemplate(text)
  /\ fields' = parseResults'.fields
  /\ pc' = "fields"
  /\ UNCHANGED <<text, validation, table, screen, stack, fieldName, inferredType>>
  /\ UNCHANGED ioVars

\* validateDocxFieldsForPhase1(fields)
Validate ==
  /\ pc = "fields"
  /\ validation' = validateDocxFieldsForPhase1(fields)
  /\ pc' = "validated"
  /\ UNCHANGED <<text, parseResults, fields, table, screen, stack, fieldName, inferredType>>
  /\ UNCHANGED ioVars

\* createTableFromDocxFields(compatibleFields, "Test Table")
CreateTable ==
  /\ pc = "validated"
  /\ table' = createTableFromDocxFields(validation.compatibleFields, tableNameOf)
  /\ pc' = "done"
  /\ UNCHANGED <<text, parseResults, fields, validation, screen, stack, fieldName, inferredType>>
  /\ UNCHANGED ioVars

\* createScreenFromDocxTemplate({fields, name}, workspaceAppId)
CreateScreen ==
  /\ pc = "fields"
  /\ LET r == createScreenFromDocxTemplate(
                 [fields |-> fields, name |-> templateNameOf], workspaceAppIdOf)
     IN table' = r.table /\ screen' = r.screen
  /\ pc' = "screened"
  /\ UNCHANGED <<text, parseResults, fields, validation, stack, fieldName, inferredType>>
  /\ UNCHANGED ioVars

Top == stack[Len(stack)]

SetTop(fr) == [stack EXCEPT ![Len(stack)] = fr]

\* parseDocumenteroTemplate(documentText) is entered
EnterParse ==
  /\ pc = "call"
  /\ stack' = <<invocation(text, patterns)>>
  /\ pc' = "run"
  /\ UNCHANGED <<text, parseResults, fields, validation, table, screen,
                 fieldName, inferredType>>
  /\ UNCHANGED ioVars

\* one iteration (or the exit) of the simple-field or nested-field loop of
\* the innermost invocation
FieldStep ==
  /\ pc = "run"
  /\ Top.pass \in {"simpleField", "nestedField"}
  /\ stack' = SetTop(fieldStep(Top))
  /\ UNCHANGED <<pc, text, parseResults, fields, validation, table, screen,
                 fieldName, inferredType>>
  /\ UNCHANGED ioVars

\* one exec of a block loop of the innermost invocation: on a match the
\* body is handed to a new invocation, on null the loop is left
BlockStep ==
  /\ pc = "run"
  /\ Top.pass \in {"conditional", "loop", "unless", "with"}
  /\ LET match == execBlock(blockKindOf(Top.pass), Top.text, Top.patterns[Top.pass])
     IN IF match.found
          THEN stack' = Append(SetTop(blockStep(Top, match)),
                               invocation(match.g2, blockStep(Top, match).patterns))
          ELSE stack' = SetTop([Top EXCEPT !.pass = nextPass(Top.pass),
                                           !.patterns[Top.pass] = 0])
  /\ UNCHANGED <<pc, text, parseResults, fields, validation, table, screen,
                 fieldName, inferredType>>
  /\ UNCHANGED ioVars

\* a sub-parse returns to the block loop that called it
ReturnToCaller ==
  /\ pc = "run"
  /\ Len(stack) > 1
  /\ Top.pass = "return"
  /\ stack' = [i \in 1..(Len(stack) - 1) |->
                 IF i = Len(stack) - 1
                   THEN resume(stack[i], returnValue(Top.st))
                   ELSE stack[i]]
  /\ UNCHANGED <<pc, text, parseResults, fields, validation, table, screen,
                 fieldName, inferredType>>
  /\ UNCHANGED ioVars

\* the outermost invocation returns: parseResults and parsedFields are set
FinishParse ==
  /\ pc = "run"
  /\ Len(stack) = 1
  /\ Top.pass = "return"
  /\ parseResults' = returnValue(Top.st)
  /\ fields' = parseResults'.fields
  /\ stack' = <<>>
  /\ pc' = "fields"
  /\ UNCHANGED <<text, validation, table, screen, fieldName, inferredType>>
  /\ UNCHANGED ioVars

\* inferFieldType(fieldName)
Infer ==
  /\ pc = "name"
  /\ inferredType' = inferFieldType(fieldName)
  /\ pc' = "inferred"
  /\ UNCHANGED <<text, parseResults, fields, validation, table, screen, stack, fieldName>>
  /\ UNCHANGED ioVars

----------------------------------------------------------------------------
(* createAppFromDocxTemplate: the app database and the sdk behind awaits *)

MaxTemplateFields == 2

\* the template document under docx_template_<id> in the global database,
\* or null when db.get throws (no such document, database unreachable)
StoredTemplates ==
  {null} \cup
  {[name |-> templateNameOf, fields |-> fs] :
     fs \in UNION {[1..n -> FieldUniverse] : n \in 0..MaxTemplateFields}
            \cup {mockDocxTemplateFields}}

USERS_TABLE_SCHEMA == [_id |-> "ta_users", type |-> "table", name |-> "Users"]

getDocxTemplateData(templateDoc) ==
  IF templateDoc = null THEN null
  ELSE [name |-> templateDoc.name, fields |-> templateDoc.fields]

\* templateData.fields.filter(...) in createAppFromDocxTemplate
compatibleFields(templateData) ==
  SelectSeq(templateData.fields,
            LAMBDA field : /\ ~field.isNested /\ ~field.isConditional
                           /\ ~field.isLoop
                           /\ typeMapLookup(field.type) # undefined)

createBasicLayout == [_id |-> "layout_generated", name |-> "Main Layout"]

\* the argument of sdk.workspaceApps.create
workspaceApp(templateData) ==
  [name |-> templateData.name, url |-> "/", disabled |-> FALSE, isDefault |-> TRUE]

createFormScreen(tbl, templateName, workspaceAppId) ==
  [name |-> templateName \o str_Form,
   routing |-> [route |-> <<"/">> \o replaceWhitespace(toLowerCase(templateName)),
                roleId |-> "BASIC", homeScreen |-> FALSE],
   props |-> [_component |-> standardComponents \o "container",
              _instanceName |-> templateName \o str_Screen,
              _children |-> <<[_component |-> standardComponents \o "formblock",
                               _instanceName |-> templateName \o str_Form,
                               dataSource |-> [label |-> tbl.name,
                                               tableId |-> tbl._id,
                                               type |-> "table"],
                               actionType |-> "Create",
                               title |-> templateName \o str_Form]>>],
   workspaceAppId |-> workspaceAppId]

\* createAppFromDocxTemplate is called for a stored template
InitCreateApp ==
  /\ pc = "createApp" /\ text = <<>> /\ fields = <<>> /\ fieldName = <<>>
  /\ parseResults = null /\ validation = null /\ table = null
  /\ screen = null /\ stack = <<>> /\ inferredType = "none"
  /\ ui = null /\ tasks = <<>> /\ calls = <<>> /\ response = 0
  /\ request \in StoredTemplates

\* an awaited call: it resolves and the function goes on at position to,
\* or it rejects and control passes to the catch block
Await(fn, arg, to) ==
  \E ok \in BOOLEAN :
    /\ calls' = Append(calls, [fn |-> fn, arg |-> arg, ok |-> ok])
    /\ pc' = IF ok THEN to ELSE "catch"

\* what no step of createAppFromDocxTemplate after the filter changes
appFrame ==
  <<text, parseResults, fields, validation, table, screen, stack,
    fieldName, inferredType, ui, tasks, request, response>>

\* from the entry to the first db.put: the template is fetched and filtered
GetTemplateData ==
  /\ pc = "createApp"
  /\ LET templateData == getDocxTemplateData(request) IN
     IF templateData = null
       THEN pc' = "catch" /\ UNCHANGED <<fields, table>>
     ELSE IF Len(compatibleFields(templateData)) = 0
       THEN pc' = "fallback" /\ fields' = <<>> /\ UNCHANGED table
     ELSE /\ pc' = "putTable"
          /\ fields' = compatibleFields(templateData)
          /\ table' = createTableFromDocxFields(fields', templateData.name \o str_Data)
  /\ UNCHANGED <<text, parseResults, validation, screen, stack, fieldName,
                 inferredType, ui, tasks, calls, request, response>>

\* await db.put(USERS_TABLE_SCHEMA); return
PutUsersFallback ==
  /\ pc = "fallback"
  /\ Await("db.put", USERS_TABLE_SCHEMA, "returned")
  /\ UNCHANGED appFrame

\* await db.put(table)
PutTable ==
  /\ pc = "putTable"
  /\ Await("db.put", table, "putLayout")
  /\ UNCHANGED appFrame

\* await db.put(layout)
PutLayout ==
  /\ pc = "putLayout"
  /\ Await("db.put", createBasicLayout, "createWorkspaceApp")
  /\ UNCHANGED appFrame

\* await sdk.workspaceApps.create(...)
CreateWorkspaceApp ==
  /\ pc = "createWorkspaceApp"
  /\ Await("sdk.workspaceApps.create",
           workspaceApp(getDocxTemplateData(request)), "createScreen")
  /\ UNCHANGED appFrame

\* await sdk.screens.create(screenData)
ScreensCreate ==
  /\ pc = "createScreen"
  /\ Await("sdk.screens.create",
           createFormScreen(table, request.name, workspaceAppIdOf), "putUsers")
  /\ UNCHANGED appFrame

\* await db.put(USERS_TABLE_SCHEMA) at the end of the try block
PutUsers ==
  /\ pc = "putUsers"
  /\ Await("db.put", USERS_TABLE_SCHEMA, "returned")
  /\ UNCHANGED appFrame

\* the catch block: await db.put(USERS_TABLE_SCHEMA); throw error. When this
\* put rejects too, its error is the one thrown.
CatchPutUsers ==
  /\ pc = "catch"
  /\ \E ok \in BOOLEAN :
       calls' = Append(calls, [fn |-> "db.put", arg |-> USERS_TABLE_SCHEMA, ok |-> ok])
  /\ pc' = "threw"
  /\ UNCHANGED appFrame

NextCreateApp ==
  \/ GetTemplateData \/ PutUsersFallback \/ PutTable \/ PutLayout
  \/ CreateWorkspaceApp \/ ScreensCreate \/ PutUsers \/ CatchPutUsers

----------------------------------------------------------------------------
(* uploadDocxTemplate: the controller behind POST /api/templates/docx *)

\* String.prototype.endsWith
endsWith(s, suffix) ==
  /\ Len(s) >= Len(suffix)
  /\ SubSeq(s, Len(s) - Len(suffix) + 1, Len(s)) = suffix

RECURSIVE trimStart(_)
trimStart(s) == IF s # <<>> /\ Head(s) = " " THEN trimStart(Tail(s)) ELSE s

RECURSIVE trimEnd(_)
trimEnd(s) ==
  IF s # <<>> /\ s[Len(s)] = " " THEN trimEnd(SubSeq(s, 1, Len(s) - 1)) ELSE s

\* String.prototype.trim
trim(s) == trimEnd(trimStart(s))

str_dotDocx == <<".", "d", "o", "c", "x">>

\* ctx.request.files.file: nothing, an array of files, or one file
noFile == [kind |-> "none"]
fileArray == [kind |-> "array"]
OneFile(name) == [kind |-> "file", name |-> name]

\* a form value that is a JSON string: not sent, malformed, or the
\* serialization of a value
notSent == [kind |-> "notSent"]
malformed == [kind |-> "malformed"]
stringify(value) == [kind |-> "json", value |-> value]

\* the inner try of uploadDocxTemplate: fields ? JSON.parse(fields) : [],
\* and [] kept when JSON.parse throws
parsedFieldsOf(formValue) ==
  IF formValue.kind = "json" THEN formValue.value ELSE <<>>

UploadFileNames ==
  {<<"a", ".", "d", "o", "c", "x">>, <<"A", ".", "D", "O", "C", "X">>,
   <<"a", ".", "d", "o", "c">>, <<"d", "o", "c", "x">>,
   <<"a", ".", "d", "o", "c", "x", ".", "t", "x", "t">>, <<>>}

UploadTemplateNames ==
  {<<"T">>, <<" ", "T", " ">>, <<" ", " ">>, <<>>}

\* the requests the controller is called with; an unsent name is undefined
UploadRequests ==
  [file : {noFile, fileArray} \cup {OneFile(n) : n \in UploadFileNames},
   hasName : BOOLEAN,
   name : UploadTemplateNames,
   fields : {notSent, malformed, stringify(<<>>),
             stringify(<<Flat(s_firstName, "text", TRUE)>>)}]

\* A plausible slip: the template name is not checked.
badRequest_noNameCheck(req) ==
  IF req.file.kind # "file" THEN 400
  ELSE IF ~endsWith(toLowerCase(req.file.name), str_dotDocx) THEN 400
  ELSE 0

\* the three ctx.throw(400, ...) checks before the try block: the status
\* thrown, or 0 when the request passes
badRequest(req) ==
  IF req.file.kind # "file" THEN 400
  ELSE IF ~endsWith(toLowerCase(req.file.name), str_dotDocx) THEN 400
  ELSE IF ~req.hasName \/ req.name = <<>> \/ trim(req.name) = <<>> THEN 400
  ELSE 0

\* the template document handed to db.put
templateDoc(req) ==
  [_id |-> "docx_template_generated", type |-> "template", templateType |-> "docx",
   key |-> "docx/generated", name |-> trim(req.name),
   originalName |-> req.file.name, fields |-> parsedFieldsOf(req.fields)]

InitUpload ==
  /\ pc = "uploadDocxTemplate" /\ text = <<>> /\ fields = <<>> /\ fieldName = <<>>
  /\ parseResults = null /\ validation = null /\ table = null
  /\ screen = null /\ stack = <<>> /\ inferredType = "none"
  /\ ui = null /\ tasks = <<>> /\ calls = <<>> /\ response = 0
  /\ request \in UploadRequests /\ (~request.hasName => request.name = <<>>)

\* what the controller leaves alone
uploadFrame ==
  <<text, parseResults, fields, validation, table, screen, stack,
    fieldName, inferredType, ui, tasks, request>>

\* an awaited call of the try block: it resolves and the controller goes on
\* at position to, or it rejects and the catch block throws 500
AwaitOr500(fn, arg, to) ==
  \E ok \in BOOLEAN :
    /\ calls' = Append(calls, [fn |-> fn, arg |-> arg, ok |-> ok])
    /\ IF ok THEN pc' = to /\ UNCHANGED response
             ELSE pc' = "responded" /\ response' = 500

\* the checks before the try block
CheckRequest ==
  /\ pc = "uploadDocxTemplate"
  /\ IF badRequest(request) # 0
       THEN pc' = "responded" /\ response' = badRequest(request)
       ELSE pc' = "upload" /\ UNCHANGED response
  /\ UNCHANGED calls
  /\ UNCHANGED uploadFrame

\* await objectStore.upload(...)
ObjectStoreUpload ==
  /\ pc = "upload"
  /\ AwaitOr500("objectStore.upload", [filename |-> "global/templates/generated.docx"],
                "getGlobalFileUrl")
  /\ UNCHANGED uploadFrame

\* await objectStore.getGlobalFileUrl(...)
GetGlobalFileUrl ==
  /\ pc = "getGlobalFileUrl"
  /\ AwaitOr500("objectStore.getGlobalFileUrl", [filename |-> "generated.docx"],
                "putTemplateDoc")
  /\ UNCHANGED uploadFrame

\* await db.put(templateDoc); ctx.body = ...
PutTemplateDoc ==
  /\ pc = "putTemplateDoc"
  /\ \E ok \in BOOLEAN :
       /\ calls' = Append(calls, [fn |-> "db.put", arg |-> templateDoc(request), ok |-> ok])
       /\ response' = IF ok THEN 200 ELSE 500
  /\ pc' = "responded"
  /\ UNCHANGED uploadFrame

NextUpload == CheckRequest \/ ObjectStoreUpload \/ GetGlobalFileUrl \/ PutTemplateDoc

----------------------------------------------------------------------------
(* The upload modal: handleFileChange, parseDocxFile, uploadTemplate *)

MaxInFlight == 2

docxMimeType == "application/vnd.openxmlformats-officedocument.wordprocessingml.document"

\* a File: name, MIME type, size in bytes and what mammoth makes of its
\* content (the raw text, or an exception)
DocxFile(name, txt) ==
  [name |-> name, type |-> docxMimeType, size |-> 20000,
   content |-> [readable |-> TRUE, text |-> txt]]

fileA == DocxFile(<<"a", ".", "d", "o", "c", "x">>, EndToEndText)
fileB == DocxFile(<<"b", ".", "d", "o", "c", "x">>, LoopText)
corruptFile ==
  [name |-> <<"c", ".", "d", "o", "c", "x">>, type |-> "application/octet-stream",
   size |-> 20000, content |-> [readable |-> FALSE, text |-> <<>>]]
textFile ==
  [name |-> <<"n", ".", "t", "x", "t">>, type |-> "text/plain", size |-> 10,
   content |-> [readable |-> FALSE, text |-> <<>>]]
hugeFile == [fileA EXCEPT !.name = <<"h", ".", "d", "o", "c", "x">>, !.size = 10000001]

SelectableFiles == {fileA, fileB, corruptFile, textFile, hugeFile}

\* the names a user types into the Template Name input
TypedNames == {<<>>, <<"T">>}

validateDocxFile(selectedFile) ==
  /\ endsWith(toLowerCase(selectedFile.name), str_dotDocx)
  /\ selectedFile.type \in {docxMimeType, "application/octet-stream", ""}
  /\ selectedFile.size <= 10 * 1000000

\* selectedFile.name.replace(/\.[^/.]+$/, "")
stripExtension(name) ==
  LET dots == {d \in 1..(Len(name) - 1) :
                 /\ name[d] = "."
                 /\ \A k \in (d + 1)..Len(name) : name[k] \notin {"/", "."}}
  IN IF dots = {} THEN name
     ELSE SubSeq(name, 1, (CHOOSE d \in dots : \A e \in dots : e <= d) - 1)

\* $: canSubmit = file && templateName.trim() && !uploading && !parsing
canSubmit(c) ==
  /\ c.file # null
  /\ trim(c.templateName) # <<>>
  /\ ~c.uploading
  /\ ~c.parsing

\* the sequence without its i-th element
RemoveAt(seq, i) == SubSeq(seq, 1, i - 1) \o SubSeq(seq, i + 1, Len(seq))

\* the modal has just been opened
InitModal ==
  /\ pc = "modal" /\ text = <<>> /\ fields = <<>> /\ fieldName = <<>>
  /\ parseResults = null /\ validation = null /\ table = null
  /\ screen = null /\ stack = <<>> /\ inferredType = "none"
  /\ calls = <<>> /\ request = null /\ response = 0
  /\ tasks = <<>>
  /\ ui = [file |-> null, templateName |-> <<>>, uploading |-> FALSE,
           showPreview |-> FALSE, parsing |-> FALSE]

\* what the modal leaves alone
modalFrame ==
  <<pc, text, validation, table, screen, stack, fieldName, inferredType,
    calls, request, response>>

\* handleFileChange with a file: a rejected file changes nothing; an accepted
\* one is selected, names the template if it has no name, and parseDocxFile
\* runs up to its first await with parsing set
SelectFile ==
  /\ pc = "modal"
  /\ Len(tasks) < MaxInFlight
  /\ \E selectedFile \in SelectableFiles :
       IF ~validateDocxFile(selectedFile)
         THEN UNCHANGED <<ui, tasks>>
         ELSE /\ ui' = [ui EXCEPT !.file = selectedFile,
                                  !.templateName =
                                     IF @ = <<>> THEN stripExtension(selectedFile.name) ELSE @,
                                  !.parsing = TRUE]
              /\ tasks' = Append(tasks, [fn |-> "parseDocxFile", file |-> selectedFile])
  /\ UNCHANGED <<fields, parseResults>>
  /\ UNCHANGED modalFrame

\* handleFileChange with no file
ClearFile ==
  /\ pc = "modal"
  /\ ui' = [ui EXCEPT !.file = null, !.showPreview = FALSE]
  /\ fields' = <<>>
  /\ UNCHANGED <<parseResults, tasks>>
  /\ UNCHANGED modalFrame

\* a parseDocxFile call goes on after its awaits: the try block with the text
\* of the file it read, or the catch block, then the finally block
SettleParse ==
  /\ pc = "modal"
  /\ \E i \in 1..Len(tasks) :
       /\ tasks[i].fn = "parseDocxFile"
       /\ IF tasks[i].file.content.readable
            THEN /\ parseResults' = parseDocumenteroTemplate(tasks[i].file.content.text)
                 /\ fields' = parseResults'.fields
                 /\ ui' = [ui EXCEPT !.showPreview = TRUE, !.parsing = FALSE]
            ELSE /\ parseResults' = null
                 /\ fields' = <<>>
                 /\ ui' = [ui EXCEPT !.showPreview = FALSE, !.parsing = FALSE]
       /\ tasks' = RemoveAt(tasks, i)
  /\ UNCHANGED modalFrame

\* the Template Name input, rendered when a file is selected and no parse
\* is shown as running, and enabled while no upload runs
TypeTemplateName ==
  /\ pc = "modal"
  /\ ui.file # null /\ ~ui.parsing /\ ~ui.uploading
  /\ \E typed \in TypedNames : ui' = [ui EXCEPT !.templateName = typed]
  /\ UNCHANGED <<fields, parseResults, tasks>>
  /\ UNCHANGED modalFrame

\* the confirm button, enabled by canSubmit: uploadTemplate runs up to
\* await API.uploadDocxTemplate(formData) with uploading set
UploadTemplate ==
  /\ pc = "modal"
  /\ canSubmit(ui)
  /\ Len(tasks) < MaxInFlight
  /\ ui' = [ui EXCEPT !.uploading = TRUE]
  /\ tasks' = Append(tasks, [fn |-> "uploadTemplate", file |-> ui.file])
  /\ UNCHANGED <<fields, parseResults>>
  /\ UNCHANGED modalFrame

\* an uploadTemplate call goes on after its await: the form is reset when
\* the request succeeded, then the finally block
SettleUpload ==
  /\ pc = "modal"
  /\ \E i \in 1..Len(tasks) :
       /\ tasks[i].fn = "uploadTemplate"
       /\ \E ok \in BOOLEAN :
            IF ok
              THEN /\ ui' = [ui EXCEPT !.file = null, !.templateName = <<>>,
                                       !.showPreview = FALSE, !.uploading = FALSE]
                   /\ fields' = <<>>
                   /\ parseResults' = null
              ELSE /\ ui' = [ui EXCEPT !.uploading = FALSE]
                   /\ UNCHANGED <<fields, parseResults>>
       /\ tasks' = RemoveAt(tasks, i)
  /\ UNCHANGED modalFrame

NextModal ==
  \/ SelectFile \/ ClearFile \/ SettleParse \/ TypeTemplateName
  \/ UploadTemplate \/ SettleUpload

----------------------------------------------------------------------------
(* The templates modal: handleSelectTemplate *)

MaxSelections == 3

\* selectedTemplateId when no template is selected
nullKey == "null"

\* the templates of the store that are marked new
newTemplates ==
  {[key |-> "docx/1", name |-> "Customer Registration Form", new |-> TRUE],
   [key |-> "docx/2", name |-> "Invoice", new |-> TRUE],
   [key |-> "app/crm", name |-> "CRM", new |-> TRUE],
   [key |-> "app/expenses", name |-> "Expenses", new |-> TRUE]}

\* template.key.startsWith("docx/")
isDocxTemplate(template) == template.key \in {"docx/1", "docx/2"}

\* the argument handed to onSelectTemplate
selectionOf(template) ==
  IF isDocxTemplate(template)
    THEN [key |-> template.key, name |-> template.name, new |-> template.new,
          useTemplate |-> TRUE]
    ELSE template

\* A plausible slip: the isLoading guard left out.
handleSelectTemplate_noGuard(c, template) ==
  [ui |-> [c EXCEPT !.isLoading = TRUE, !.selectedTemplateId = template.key],
   started |-> <<[fn |-> "onSelectTemplate", template |-> selectionOf(template)]>>]

\* handleSelectTemplate up to its await: the component state it leaves and
\* the onSelectTemplate call it has started, if any
handleSelectTemplate(c, template) ==
  IF c.isLoading
    THEN [ui |-> c, started |-> <<>>]
    ELSE [ui |-> [c EXCEPT !.isLoading = TRUE, !.selectedTemplateId = template.key],
          started |-> <<[fn |-> "onSelectTemplate", template |-> selectionOf(template)]>>]

\* the modal has just been opened
InitTemplates ==
  /\ pc = "templates" /\ text = <<>> /\ fields = <<>> /\ fieldName = <<>>
  /\ parseResults = null /\ validation = null /\ table = null
  /\ screen = null /\ stack = <<>> /\ inferredType = "none"
  /\ calls = <<>> /\ request = null /\ response = 0
  /\ tasks = <<>>
  /\ ui = [isLoading |-> FALSE, selectedTemplateId |-> nullKey]

\* what the templates modal leaves alone
templatesFrame ==
  <<pc, text, parseResults, fields, validation, table, screen, stack,
    fieldName, inferredType, request, response>>

\* a template button is clicked, or the handler is invoked by other means
SelectTemplate ==
  /\ pc = "templates"
  /\ Len(calls) + Len(tasks) < MaxSelections
  /\ \E template \in newTemplates :
       LET r == handleSelectTemplate(ui, template)
       IN ui' = r.ui /\ tasks' = tasks \o r.started
  /\ UNCHANGED calls
  /\ UNCHANGED templatesFrame

\* an onSelectTemplate call settles: when it resolves the handler returns
\* with the state as it is; when it rejects the catch block resets the
\* state and rethrows
SettleSelection ==
  /\ pc = "templates"
  /\ \E i \in 1..Len(tasks) : \E ok \in BOOLEAN :
       /\ tasks[i].fn = "onSelectTemplate"
       /\ calls' = Append(calls, [fn |-> "onSelectTemplate",
                                  arg |-> tasks[i].template, ok |-> ok])
       /\ tasks' = RemoveAt(tasks, i)
       /\ ui' = IF ok THEN ui
                ELSE [ui EXCEPT !.isLoading = FALSE, !.selectedTemplateId = nullKey]
  /\ UNCHANGED templatesFrame

NextTemplates == SelectTemplate \/ SettleSelection

NextParse == ParseTemplate \/ Validate \/ CreateTable \/ CreateScreen
NextValidate == Validate \/ CreateTable \/ CreateScreen
NextInfer == Infer
NextSteps == EnterParse \/ FieldStep \/ BlockStep \/ ReturnToCaller \/ FinishParse
Init == InitParse \/ InitValidate \/ InitInfer \/ InitSteps \/ InitCreateApp \/ InitUpload
  \/ InitModal \/ InitTemplates

Next ==
  \/ ParseTemplate \/ Validate \/ CreateTable \/ CreateScreen \/ Infer
  \/ EnterParse \/ FieldStep \/ BlockStep \/ ReturnToCaller \/ FinishParse
  \/ NextCreateApp \/ NextUpload \/ NextModal \/ NextTemplates

SpecParse == InitParse /\ [][NextParse]_vars
SpecValidate == InitValidate /\ [][NextValidate]_vars
SpecInfer == InitInfer /\ [][NextInfer]_vars
SpecSteps == InitSteps /\ [][NextSteps]_vars
SpecCreateApp == InitCreateApp /\ [][NextCreateApp]_vars
SpecUpload == InitUpload /\ [][NextUpload]_vars
SpecModal == InitModal /\ [][NextModal]_vars
SpecTemplates == InitTemplates /\ [][NextTemplates]_vars
Spec == Init /\ [][Next]_vars

----------------------------------------------------------------------------
(* Vocabulary of the properties *)

\* the parser has just returned; no later step changes text or parseResults
Parsed == pc = "fields" /\ parseResults # null
Validated == pc \in {"validated", "done"}

\* dedup key of a returned field: its path if it has one, its name otherwise
DedupKeyOf(f) == IF f.path # <<>> THEN f.path ELSE f.name

IsOpen(txt, i, b) == txt[i].k = "open" /\ txt[i].b = b

\* position i lies in the body of a block of kind b: an opener of that kind
\* precedes it with no closing tag of the kind in between, and a closing tag
\* of the kind follows
InBody(txt, i, b) ==
  /\ \E o \in 1..(i - 1) :
       /\ IsOpen(txt, o, b)
       /\ \A m \in (o + 1)..(i - 1) : ~IsClose(txt, m, b)
  /\ ~IsClose(txt, i, b)
  /\ \E c \in (i + 1)..Len(txt) : IsClose(txt, c, b)

\* expressions of the blocks of kind b whose body holds position i
EnclosingExprs(txt, i, b) ==
  {txt[o].s : o \in {o \in 1..(i - 1) :
                       /\ IsOpen(txt, o, b)
                       /\ \A m \in (o + 1)..(i - 1) : ~IsClose(txt, m, b)}}

TopLevel(txt, i) == \A b \in BlockKinds : ~InBody(txt, i, b)

Occurrences(txt, n) == {i \in 1..Len(txt) : txt[i] = Simple(n)}

SimpleNames(txt) == {txt[i].s : i \in {j \in 1..Len(txt) : txt[j].k = "simple"}}

FieldsWithKey(fs, key) == {i \in 1..Len(fs) : DedupKeyOf(fs[i]) = key}

FieldsNamed(fs, n) == {i \in 1..Len(fs) : fs[i].name = n}

----------------------------------------------------------------------------
(* C1 - C7: the parser *)

\* C1: the field list returned by parseDocumenteroTemplate holds no two
\* fields with the same dedup key (path if present, name otherwise).
C1_NoDuplicateDedupKey ==
  Parsed =>
    \A i, j \in 1..Len(parseResults.fields) :
      i # j => DedupKeyOf(parseResults.fields[i]) # DedupKeyOf(parseResults.fields[j])

\* a parse that met the same key twice, once in a block, and returned several fields
C1_Witness ==
  /\ Parsed
  /\ Len(parseResults.fields) >= 2
  /\ \E i, j \in 1..Len(text) :
       /\ i < j /\ text[i] = text[j] /\ text[i].k \in {"simple", "nested"}
       /\ \E b \in BlockKinds : InBody(text, j, b)

\* C2: a simple name that occurs at top level and also inside the body of an
\* #if, #unless or #each block yields one field for that name, and it is
\* required, not conditional and not a loop field, whichever comes first.
C2_FirstWinsTopLevel ==
  Parsed =>
    \A n \in SimpleNames(text) :
      ( /\ \E i \in Occurrences(text, n) : TopLevel(text, i)
        /\ \E i \in Occurrences(text, n) :
             \E b \in {"if", "unless", "each"} : InBody(text, i, b) )
      => /\ Cardinality(FieldsWithKey(parseResults.fields, n)) = 1
         /\ \A i \in FieldsWithKey(parseResults.fields, n) :
              /\ parseResults.fields[i].required = TRUE
              /\ parseResults.fields[i].isConditional = FALSE
              /\ parseResults.fields[i].isLoop = FALSE

\* the occurrence inside the block comes first in the text, the top-level one after it
C2_Witness ==
  /\ Parsed
  /\ \E n \in SimpleNames(text) :
       \E i, j \in Occurrences(text, n) :
         /\ i < j
         /\ \E b \in {"if", "unless", "each"} : InBody(text, i, b)
         /\ TopLevel(text, j)
         /\ Cardinality(FieldsWithKey(parseResults.fields, n)) = 1

\* every occurrence of the simple name n lies in the body of a block of kind b
\* with expression e, and in no body of another kind
OnlyInside(txt, n, b, e) ==
  /\ Occurrences(txt, n) # {}
  /\ \A i \in Occurrences(txt, n) :
       /\ InBody(txt, i, b)
       /\ EnclosingExprs(txt, i, b) = {e}
       /\ \A other \in BlockKinds \ {b} : ~InBody(txt, i, other)

\* C3: a simple field that occurs only inside the body of an
\* {{#each e}} block yields exactly one field of that name, with isLoop = true,
\* loopVariable = e and required = false.
C3_LoopProvenance ==
  Parsed =>
    \A n \in SimpleNames(text) :
      \A i \in Occurrences(text, n) :
        \A e \in EnclosingExprs(text, i, "each") :
          OnlyInside(text, n, "each", e)
          => /\ Cardinality(FieldsNamed(parseResults.fields, n)) = 1
             /\ \A f \in FieldsNamed(parseResults.fields, n) :
                  /\ parseResults.fields[f].isLoop = TRUE
                  /\ parseResults.fields[f].loopVariable = e
                  /\ parseResults.fields[f].required = FALSE

\* C4: a field that occurs only inside the body of an {{#if g}} block is
\* returned with isConditional = true, condition = g and required = false; one
\* that occurs only inside an {{#unless g}} block is returned with
\* isConditional = true, condition = "NOT g" and required = false.
C4_ConditionalProvenance ==
  Parsed =>
    \A n \in SimpleNames(text) :
      \A i \in Occurrences(text, n) :
        /\ \A g \in EnclosingExprs(text, i, "if") :
             OnlyInside(text, n, "if", g)
             => \A f \in FieldsNamed(parseResults.fields, n) :
                  /\ parseResults.fields[f].isConditional = TRUE
                  /\ parseResults.fields[f].condition = g
                  /\ parseResults.fields[f].required = FALSE
        /\ \A g \in EnclosingExprs(text, i, "unless") :
             OnlyInside(text, n, "unless", g)
             => \A f \in FieldsNamed(parseResults.fields, n) :
                  /\ parseResults.fields[f].isConditional = TRUE
                  /\ parseResults.fields[f].condition = <<"N", "O", "T", " ">> \o g
                  /\ parseResults.fields[f].required = FALSE

RECURSIVE BlockMatches(_, _, _)
\* the matches the pass of kind b visits in txt, in order
BlockMatches(b, txt, from) ==
  LET m == execBlock(b, txt, from) IN
  IF ~m.found THEN <<>> ELSE <<m>> \o BlockMatches(b, txt, m.lastIndex)

\* the path the scoping rewrite gives a field found in the body of #with ctx
ScopedPath(ctx, f) ==
  ctx \o <<".">> \o (IF f.path # <<>> THEN f.path ELSE f.name)

\* C5: for each field discovered in the body of a {{#with ctx}} block the
\* result holds a field with isNested = true whose path is ctx "." (the
\* field's path if it had one, else its name).
C5_ScopingPathRewrite ==
  Parsed =>
    LET ms == BlockMatches("with", text, 0) IN
    \A k \in 1..Len(ms) :
      LET inner == parseDocumenteroTemplate(ms[k].g2).fields IN
      \A i \in 1..Len(inner) :
        \E j \in 1..Len(parseResults.fields) :
          /\ parseResults.fields[j].path = ScopedPath(ms[k].g1, inner[i])
          /\ parseResults.fields[j].isNested = TRUE

\* "{{#with a}}{{b.c}}{{/with}}" parsed: the nested field b.c became a.b.c
C5_Witness ==
  /\ Parsed
  /\ text = WithNestedText
  /\ \E j \in 1..Len(parseResults.fields) :
       /\ parseResults.fields[j].path = s_a_b_c
       /\ parseResults.fields[j].isNested = TRUE

SchemaKeys(t) == [i \in 1..Len(t.schema) |-> t.schema[i].key]

\* C6: the end-to-end scenario: 3 fields (firstName text/required, email
\* email/required, discount number/not required/conditional on hasDiscount),
\* totalPlaceholders = 3, 2 compatible and 1 skipped, and a table with
\* exactly the columns _id, firstName, email.
C6_EndToEnd ==
  (pc = "done" /\ text = EndToEndText) =>
    /\ Len(parseResults.fields) = 3
    /\ parseResults.fields[1].name = s_firstName
    /\ parseResults.fields[1].type = "text"
    /\ parseResults.fields[1].required = TRUE
    /\ parseResults.fields[2].name = s_email
    /\ parseResults.fields[2].type = "email"
    /\ parseResults.fields[2].required = TRUE
    /\ parseResults.fields[3].name = s_discount
    /\ parseResults.fields[3].type = "number"
    /\ parseResults.fields[3].required = FALSE
    /\ parseResults.fields[3].isConditional = TRUE
    /\ parseResults.fields[3].condition = s_hasDiscount
    /\ parseResults.totalPlaceholders = 3
    /\ Len(validation.compatibleFields) = 2
    /\ Len(validation.skippedFields) = 1
    /\ SchemaKeys(table) = <<str_id, s_firstName, s_email>>

RECURSIVE SumOver(_, _)
SumOver(ms, k) ==
  IF k = 0 THEN 0 ELSE ms[k] + SumOver(ms, k - 1)

\* matches of all six patterns found by one invocation on txt
OwnMatches(txt) ==
  Cardinality({i \in 1..Len(txt) : txt[i].k \in {"simple", "nested"}})
  + Len(BlockMatches("if", txt, 0)) + Len(BlockMatches("unless", txt, 0))
  + Len(BlockMatches("each", txt, 0)) + Len(BlockMatches("with", txt, 0))

RECURSIVE DeepMatches(_)
\* matches found by the invocation on txt and by every sub-parse at every depth
DeepMatches(txt) ==
  LET ms == BlockMatches("if", txt, 0) \o BlockMatches("unless", txt, 0)
            \o BlockMatches("each", txt, 0) \o BlockMatches("with", txt, 0)
  IN OwnMatches(txt) + SumOver([k \in 1..Len(ms) |-> DeepMatches(ms[k].g2)], Len(ms))

\* C7 as stated: totalPlaceholders is the sum of all pattern matches found by
\* the parse and by every recursive sub-parse at every depth.
C7_TotalAtAllDepths ==
  Parsed => parseResults.totalPlaceholders = DeepMatches(text)

\* C7 amended: totalPlaceholders is the number of pattern matches found by the
\* six passes of the top-level invocation itself; what the sub-parses counted
\* is not added.
C7_TotalOfTopLevelInvocation ==
  Parsed => parseResults.totalPlaceholders = OwnMatches(text)

\* a parse with a block whose body holds matches of its own, one of them repeated
C7_Witness ==
  /\ Parsed
  /\ DeepMatches(text) > OwnMatches(text)
  /\ parseResults.totalPlaceholders > Len(parseResults.fields)
  /\ parseResults.totalPlaceholders = OwnMatches(text)

----------------------------------------------------------------------------
(* C8 - C9: the type inferencer *)

\* kw is a substring of name, letter case ignored
ContainsIgnoreCase(name, kw) ==
  \E i \in 0..(Len(name) - Len(kw)) :
    \A j \in 1..Len(kw) : toLowerCaseChar(name[i + j]) = toLowerCaseChar(kw[j])

\* the rules in their stated order
Rules ==
  << [type |-> "email", keywords |-> {kw_email, kw_mail}],
     [type |-> "phone", keywords |-> {kw_phone, kw_tel, kw_mobile}],
     [type |-> "date", keywords |-> {kw_date, kw_time, kw_created, kw_updated,
                                     kw_birth, kw_due}],
     [type |-> "number", keywords |-> {kw_amount, kw_price, kw_cost, kw_total,
                                       kw_count, kw_quantity, kw_age, kw_number,
                                       kw_id}],
     [type |-> "boolean", keywords |-> {kw_is, kw_has, kw_active, kw_enabled,
                                        kw_visible, kw_required}],
     [type |-> "url", keywords |-> {kw_url, kw_link, kw_website}] >>

MatchingRules(name) ==
  {r \in 1..Len(Rules) : \E kw \in Rules[r].keywords : ContainsIgnoreCase(name, kw)}

FirstRuleType(name) ==
  IF MatchingRules(name) = {} THEN "text" ELSE Rules[Min(MatchingRules(name))].type

\* C8: inferFieldType returns the type of the first rule, in the order email,
\* phone, date, number, boolean, url, one of whose keywords is a
\* case-insensitive substring of the name, and text when none matches; so
\* createdDate -> date, isActive -> boolean, id -> number, customerEmail -> email.
C8_FirstMatchingRule ==
  pc = "inferred" =>
    /\ inferredType = FirstRuleType(fieldName)
    /\ fieldName = s_createdDate => inferredType = "date"
    /\ fieldName = s_isActive => inferredType = "boolean"
    /\ fieldName = s_id => inferredType = "number"
    /\ fieldName = s_customerEmail => inferredType = "email"

\* a name that holds a keyword of the number rule and one of the boolean rule,
\* in upper or mixed case, inferred as number
C8_Witness ==
  /\ pc = "inferred"
  /\ {4, 5} \subseteq MatchingRules(fieldName)
  /\ Min(MatchingRules(fieldName)) = 4
  /\ \E i \in 1..Len(fieldName) : fieldName[i] # toLowerCaseChar(fieldName[i])
  /\ inferredType = "number"

\* C9: every field name the template guide gives as an example of a type is
\* inferred as that type.
C9_GuideExamples ==
  pc = "inferred" =>
    /\ fieldName \in {s_email, s_emailAddress, s_contactEmail} => inferredType = "email"
    /\ fieldName \in {s_phone, s_telephone, s_mobile} => inferredType = "phone"
    /\ fieldName \in {s_date, s_birthDate, s_createdDate} => inferredType = "date"
    /\ fieldName \in {s_age, s_count, s_amount, s_price} => inferredType = "number"
    /\ fieldName \in {s_isActive, s_hasDiscount, s_newsletter} => inferredType = "boolean"
    /\ fieldName \in {s_website, s_profileUrl, s_homepage} => inferredType = "url"
    /\ fieldName = s_firstName => inferredType = "text"

----------------------------------------------------------------------------
(* C10: the validator *)

RECURSIVE PickFrom(_, _, _)
\* the elements of fs at the positions >= k that belong to I, in order
PickFrom(fs, I, k) ==
  IF k > Len(fs) THEN <<>>
  ELSE IF k \in I THEN <<fs[k]>> \o PickFrom(fs, I, k + 1)
  ELSE PickFrom(fs, I, k + 1)

\* C10: validateDocxFieldsForPhase1 puts each input field in exactly one of
\* compatibleFields and skippedFields, keeping the input order within each
\* list, so the two lengths add up to the input length.
C10_PartitionComplete ==
  Validated =>
    /\ \E I \in SUBSET (1..Len(fields)) :
         /\ validation.compatibleFields = PickFrom(fields, I, 1)
         /\ validation.skippedFields = PickFrom(fields, (1..Len(fields)) \ I, 1)
    /\ Len(validation.compatibleFields) + Len(validation.skippedFields) = Len(fields)

\* a validated list in which a skipped field stands between two compatible
\* ones and a field of unsupported type was skipped
C10_Witness ==
  /\ Validated
  /\ Len(fields) >= 3
  /\ Len(validation.compatibleFields) >= 2
  /\ \E i \in 1..Len(fields) :
       /\ fields[i] \in {validation.skippedFields[k] : k \in 1..Len(validation.skippedFields)}
       /\ ~isComplex(fields[i])
       /\ \E h \in 1..(i - 1) : fields[h] = validation.compatibleFields[1]
       /\ \E j \in (i + 1)..Len(fields) : fields[j] = validation.compatibleFields[2]

\* the field types the type table has an entry for
SupportedTypes == {"text", "email", "phone", "number", "date", "boolean", "url"}

\* a field the claims call compatible: no provenance flag, a supported type
IsCompatible(f) ==
  ~f.isNested /\ ~f.isConditional /\ ~f.isLoop /\ f.type \in SupportedTypes

IsSkipped(f) == ~IsCompatible(f)

DistinctNames(fs) ==
  \A i, j \in 1..Len(fs) : i # j => fs[i].name # fs[j].name

AllCompatible(fs) == \A i \in 1..Len(fs) : IsCompatible(fs[i])

\* C11: validateDocxFieldsForPhase1 classifies a field as compatible if and
\* only if none of isNested, isConditional, isLoop is set and its type is one
\* of text, email, phone, number, date, boolean, url; every other field is
\* skipped; hasCompatibleFields is true exactly when compatibleFields is
\* non-empty.
C11_CompatibleIff ==
  Validated =>
    /\ validation.compatibleFields = SelectSeq(fields, IsCompatible)
    /\ validation.skippedFields = SelectSeq(fields, IsSkipped)
    /\ validation.hasCompatibleFields = (validation.compatibleFields # <<>>)

\* C12: for every list of N compatible fields (flat, supported type, a
\* valid identifier as name, no name twice), the schema produced by
\* createTableFromDocxFields has exactly N+1 columns.
C12_SchemaHasNPlusOneColumns ==
  (/\ pc = "done"
   /\ AllCompatible(validation.compatibleFields)
   /\ DistinctNames(validation.compatibleFields))
  => Len(table.schema) = Len(validation.compatibleFields) + 1

\* C13: for every field list, the schema returned by
\* createTableFromDocxFields contains an _id column that is an
\* auto-generated string column with presence = false, whatever the fields.
C13_IdColumnKept ==
  pc = "done" =>
    \E i \in 1..Len(table.schema) :
      /\ table.schema[i].key = str_id
      /\ table.schema[i].value.autocolumn
      /\ table.schema[i].value.type = "string"
      /\ table.schema[i].value.presence = FALSE

\* the fixed type table as the claims state it
ColumnTypeFor(type) ==
  CASE type \in {"text", "email", "phone", "url"} -> "string"
    [] type = "number" -> "number"
    [] type = "date" -> "datetime"
    [] type = "boolean" -> "boolean"

\* the column a compatible field is to get
IsColumnOf(col, f) ==
  /\ col.name = f.name
  /\ col.type = ColumnTypeFor(f.type)
  /\ col.presence = f.required
  /\ col.email = (f.type = "email")
  /\ col.url = (f.type = "url")
  /\ col.dateOnly = (f.type = "date")

HasColumnOf(t, f) ==
  \E j \in 1..Len(t.schema) :
    t.schema[j].key = f.name /\ IsColumnOf(t.schema[j].value, f)

\* C14: for each compatible field of a list that has no name twice,
\* createTableFromDocxFields emits a column named after the field, typed by
\* the fixed table, with presence equal to the required flag, the email
\* constraint only for email, the url constraint only for url and the
\* date-only flag only for date.
C14_EachFieldHasItsColumn ==
  (pc = "done" /\ DistinctNames(validation.compatibleFields)) =>
    \A i \in 1..Len(validation.compatibleFields) :
      IsCompatible(validation.compatibleFields[i])
        => HasColumnOf(table, validation.compatibleFields[i])

\* the list the table in the state was synthesized from
SynthesizedFrom == IF pc = "done" THEN validation.compatibleFields ELSE fields

FirstCompatibleTextName(fs) ==
  LET hits == {i \in 1..Len(fs) : IsCompatible(fs[i]) /\ fs[i].type = "text"}
  IN IF hits = {} THEN str_id ELSE fs[Min(hits)].name

\* C15: primaryDisplay of the synthesized table is the name of the first
\* compatible field (in input order) whose type is text, and _id when no
\* compatible field has type text.
C15_PrimaryDisplay ==
  pc \in {"done", "screened"} =>
    table.primaryDisplay = FirstCompatibleTextName(SynthesizedFrom)

\* the component kinds as the claims state them
ComponentKindFor(type) ==
  CASE type \in {"text", "email", "phone", "url"} -> "stringfield"
    [] type = "number" -> "numberfield"
    [] type = "date" -> "datetimefield"
    [] type = "boolean" -> "booleanfield"

\* C16: component synthesis emits exactly one component per compatible
\* field, in input order, of kind stringfield for text/email/phone/url,
\* numberfield for number, datetimefield for date and booleanfield for
\* boolean, each bound to its field name; createScreenFromDocxTemplate adds
\* them in that order as children of a single form block whose data source
\* is the synthesized table's id.
C16_OneComponentPerCompatibleField ==
  pc = "screened" =>
    LET cf == SelectSeq(fields, IsCompatible)
        blocks == screen.props._children
    IN /\ Len(blocks) = 1
       /\ blocks[1]._component = standardComponents \o "formblock"
       /\ blocks[1].dataSource.tableId = table._id
       /\ Len(blocks[1]._children) = Len(cf)
       /\ \A i \in 1..Len(cf) :
            /\ blocks[1]._children[i]._component
                 = standardComponents \o ComponentKindFor(cf[i].type)
            /\ blocks[1]._children[i].field = cf[i].name

----------------------------------------------------------------------------
(* C17 - C20: the parser on malformed and nested input *)

\* the lexeme at i opens a block that no later closing tag of its kind ends
Unterminated(txt, i) ==
  /\ txt[i].k = "open"
  /\ ~\E j \in (i + 1)..Len(txt) : IsClose(txt, j, txt[i].b)

\* the text with every unterminated opener taken for plain text
StripUnterminated(txt) ==
  [i \in 1..Len(txt) |-> IF Unterminated(txt, i) THEN Plain ELSE txt[i]]

\* C17: a block opener without a closing tag of its kind produces no block
\* match: the parse returns what it returns for the text in which that
\* opener is plain text, so the opener adds nothing to totalPlaceholders,
\* conditionals, loops or nestedObjects and tags no field.
C17_UnterminatedOpenerIsAbsent ==
  Parsed => parseResults = parseDocumenteroTemplate(StripUnterminated(text))

\* a parse of a text in which an unterminated opener stands before a field
\* and a terminated block of another kind: the field comes out untagged
C17_Witness ==
  /\ Parsed
  /\ \E i, j, k \in 1..Len(text) :
       /\ i < j /\ i < k
       /\ Unterminated(text, i)
       /\ text[j].k = "simple"
       /\ TopLevel(text, j)
       /\ text[k].k = "open" /\ ~Unterminated(text, k)
       /\ \E f \in 1..Len(parseResults.fields) :
            /\ parseResults.fields[f].name = text[j].s
            /\ ~parseResults.fields[f].isConditional
            /\ ~parseResults.fields[f].isLoop
            /\ ~parseResults.fields[f].isNested
  /\ parseResults.totalPlaceholders > 0

\* a block of kind b in txt has a body whose own parse returns a field of key K
DiscoverableVia(b, txt, K) ==
  \E n \in 1..Len(BlockMatches(b, txt, 0)) :
    \E f \in 1..Len(parseDocumenteroTemplate(BlockMatches(b, txt, 0)[n].g2).fields) :
      DedupKeyOf(parseDocumenteroTemplate(BlockMatches(b, txt, 0)[n].g2).fields[f]) = K

\* the key is met by the simple, the nested or the #if pass of txt
FoundEarlier(txt, K) ==
  \/ \E i \in 1..Len(txt) : txt[i].k \in {"simple", "nested"} /\ txt[i].s = K
  \/ DiscoverableVia("if", txt, K)

\* the keys first discoverable through an #unless and through an #each block
UnlessAndEachKeys ==
  {K \in {DedupKeyOf(parseResults.fields[i]) : i \in 1..Len(parseResults.fields)} :
     /\ DiscoverableVia("unless", text, K)
     /\ DiscoverableVia("each", text, K)
     /\ ~FoundEarlier(text, K)}

\* the field the first #each block with a field of key K in its body contributes
FirstEachDerived(txt, K) ==
  LET ms == BlockMatches("each", txt, 0)
      has(n) == \E f \in 1..Len(parseDocumenteroTemplate(ms[n].g2).fields) :
                  DedupKeyOf(parseDocumenteroTemplate(ms[n].g2).fields[f]) = K
      n0 == Min({n \in 1..Len(ms) : has(n)})
      sub == parseDocumenteroTemplate(ms[n0].g2).fields
      f0 == CHOOSE f \in 1..Len(sub) : DedupKeyOf(sub[f]) = K
  IN [sub[f0] EXCEPT !.isLoop = TRUE, !.loopVariable = ms[n0].g1,
                     !.required = FALSE]

\* C19 as stated: when a dedup key is first discoverable both through an
\* #unless block and through an #each block (and not earlier), the retained
\* field is the #unless-derived one: isConditional with a "NOT " condition,
\* isLoop not set.
C19_UnlessBeforeEach ==
  Parsed =>
    \A K \in UnlessAndEachKeys :
      \A i \in FieldsWithKey(parseResults.fields, K) :
        /\ parseResults.fields[i].isConditional
        /\ SubSeq(parseResults.fields[i].condition, 1, Len(str_NOT)) = str_NOT
        /\ ~parseResults.fields[i].isLoop

\* C19 as amended: the loop pass runs before the unless pass, so the
\* retained field is the #each-derived one: the field the body of the first
\* such #each block yields, with isLoop set, loopVariable the block's
\* expression and required false.
C19_EachBeforeUnless ==
  Parsed =>
    \A K \in UnlessAndEachKeys :
      /\ Cardinality(FieldsWithKey(parseResults.fields, K)) = 1
      /\ \A i \in FieldsWithKey(parseResults.fields, K) :
           parseResults.fields[i] = FirstEachDerived(text, K)

\* a parse of a text whose #unless block comes before its #each block, both
\* with the same scoped field: the retained field is a loop field only
C19_Witness ==
  /\ Parsed
  /\ \E K \in UnlessAndEachKeys :
       /\ BlockMatches("unless", text, 0)[1].lastIndex
            < BlockMatches("each", text, 0)[1].index
       /\ \E i \in FieldsWithKey(parseResults.fields, K) :
            /\ parseResults.fields[i].isLoop
            /\ ~parseResults.fields[i].isConditional
            /\ parseResults.fields[i].loopVariable = s_items

\* the number of matches a pass of an invocation on txt has to visit
CountOf(pass, txt) ==
  CASE pass = "simpleField" -> Cardinality({i \in 1..Len(txt) : txt[i].k = "simple"})
    [] pass = "nestedField" -> Cardinality({i \in 1..Len(txt) : txt[i].k = "nested"})
    [] OTHER -> Len(BlockMatches(blockKindOf(pass), txt, 0))

PassesBefore(pass) ==
  IF pass = "return" THEN 1..Len(PassOrder) ELSE 1..(PassIndex(pass) - 1)

RECURSIVE SumCounts(_, _)
SumCounts(I, txt) ==
  IF I = {} THEN 0
  ELSE LET i == Min(I) IN CountOf(PassOrder[i], txt) + SumCounts(I \ {i}, txt)

\* the position right after the k-th match of a pass in txt
EndOfMatch(pass, txt, k) ==
  IF pass \in {"simpleField", "nestedField"}
    THEN LET kind == IF pass = "simpleField" THEN "simple" ELSE "nested"
         IN CHOOSE i \in 1..Len(txt) :
              /\ txt[i].k = kind
              /\ Cardinality({j \in 1..i : txt[j].k = kind}) = k
    ELSE BlockMatches(blockKindOf(pass), txt, 0)[k].lastIndex

\* the matches the running pass of an invocation has visited so far
VisitedInPass(fr) ==
  fr.st.totalPlaceholders - SumCounts(PassesBefore(fr.pass), fr.text)

\* an invocation is where an undisturbed scan of its own text would be: the
\* patterns of the passes it is not in are at 0, and the pattern of its pass
\* is right after the last match visited, each match visited once in order
OnTrack(fr) ==
  /\ \A q \in DOMAIN fr.patterns : q # fr.pass => fr.patterns[q] = 0
  /\ IF fr.pass = "return" THEN VisitedInPass(fr) = 0
     ELSE /\ VisitedInPass(fr) \in 0..CountOf(fr.pass, fr.text)
          /\ fr.patterns[fr.pass] =
               IF VisitedInPass(fr) = 0 THEN 0
               ELSE EndOfMatch(fr.pass, fr.text, VisitedInPass(fr))

\* C18: a sub-parse of a block body does not disturb the outer parse: every
\* invocation on the stack starts each pass at position 0 of its own text,
\* a caller waiting for a sub-parse stands right after the block whose body
\* it handed over and is still there when the sub-parse has returned, and
\* the matches of a pass are visited once each, in order.
C18_SubParseIndependent ==
  pc = "run" =>
    \A i \in 1..Len(stack) :
      /\ OnTrack(stack[i])
      /\ IF i = Len(stack) THEN ~stack[i].match.found
         ELSE /\ stack[i].match.found
              /\ stack[i].match =
                   BlockMatches(blockKindOf(stack[i].pass), stack[i].text, 0)
                     [VisitedInPass(stack[i])]
              /\ stack[i + 1].text = stack[i].match.g2

\* the outer invocation is back in a block loop after two sub-parses of
\* that loop have returned, fields merged, and stands after the second block
C18_Witness ==
  /\ pc = "run"
  /\ Len(stack) = 1
  /\ Top.pass \in {"conditional", "loop", "unless", "with"}
  /\ VisitedInPass(Top) = 2
  /\ Top.patterns[Top.pass] = Len(Top.text)
  /\ \E e \in 1..Len(Top.st.fieldMap) : Top.st.fieldMap[e].value.isNested

RECURSIVE FirstNames(_, _, _)
\* the names of the simple fields of txt from position j on, each once, in
\* the order of their first occurrence
FirstNames(txt, j, acc) ==
  IF j > Len(txt) THEN acc
  ELSE IF txt[j].k = "simple" /\ ~\E h \in 1..Len(acc) : acc[h] = txt[j].s
    THEN FirstNames(txt, j + 1, Append(acc, txt[j].s))
  ELSE FirstNames(txt, j + 1, acc)

IsFlatRequired(f, n) ==
  /\ f.name = n /\ f.required = TRUE /\ f.path = <<>>
  /\ f.isNested = FALSE /\ f.isConditional = FALSE /\ f.isLoop = FALSE

\* the invocation has left the simple-field loop and not yet run another
AfterSimplePass(fr) == fr.pass = "nestedField" /\ fr.patterns.nestedField = 0

\* C20: the simple-field pass of every invocation scans its whole text
\* fragment, block bodies included: while it runs, totalPlaceholders is the
\* number of {{identifier}} occurrences passed; after it, totalPlaceholders
\* is the number of all such occurrences in the fragment and the field map
\* holds one flat field per name, in order of first occurrence, with
\* required = true and isNested, isConditional, isLoop false.
C20_SimplePassScansAll ==
  pc = "run" =>
    \A i \in 1..Len(stack) :
      /\ stack[i].pass = "simpleField" =>
           stack[i].st.totalPlaceholders =
             Cardinality({j \in 1..stack[i].patterns.simpleField :
                            stack[i].text[j].k = "simple"})
      /\ AfterSimplePass(stack[i]) =>
           /\ stack[i].st.totalPlaceholders = CountOf("simpleField", stack[i].text)
           /\ [e \in 1..Len(stack[i].st.fieldMap) |-> stack[i].st.fieldMap[e].key]
                = FirstNames(stack[i].text, 1, <<>>)
           /\ \A e \in 1..Len(stack[i].st.fieldMap) :
                IsFlatRequired(stack[i].st.fieldMap[e].value,
                               stack[i].st.fieldMap[e].key)

\* an invocation that has just left the simple-field loop of a text with a
\* name at top level and again inside a block body
C20_Witness ==
  /\ pc = "run"
  /\ AfterSimplePass(Top)
  /\ \E i, j \in 1..Len(Top.text) :
       /\ i < j
       /\ Top.text[i].k = "simple" /\ Top.text[j] = Top.text[i]
       /\ TopLevel(Top.text, i)
       /\ \E b \in BlockKinds : InBody(Top.text, j, b)
  /\ Top.st.totalPlaceholders > Len(Top.st.fieldMap)
  /\ Len(Top.st.fieldMap) >= 1

----------------------------------------------------------------------------
(* C21 - C22: block matching and recursion *)

\* the step is a block match of the innermost invocation: a sub-parse is called
CallsSubParse == pc = "run" /\ pc' = "run" /\ Len(stack') = Len(stack) + 1

\* C21: block matching is non-greedy. Whenever a block loop takes a match,
\* the match starts at an opener of its kind after the end of the previous
\* match of that loop, ends at the first closing tag of that kind after the
\* opener, and its body, the text in between (line breaks included), holds
\* no closing tag of that kind; so consecutive blocks of a kind are separate
\* matches with disjoint bodies, and an outer block ends at the closing tag
\* of a block of the same kind nested in it.
C21_NonGreedy ==
  [][CallsSubParse =>
       LET fr == Top
           b == blockKindOf(fr.pass)
           m == stack'[Len(stack)].match
       IN /\ m.found
          /\ m.index > fr.patterns[fr.pass]
          /\ IsOpen(fr.text, m.index, b)
          /\ m.lastIndex > m.index
          /\ IsClose(fr.text, m.lastIndex, b)
          /\ \A j \in (m.index + 1)..(m.lastIndex - 1) : ~IsClose(fr.text, j, b)
          /\ m.g2 = SubSeq(fr.text, m.index + 1, m.lastIndex - 1)
          /\ stack'[Len(stack')].text = m.g2]_vars

\* the outer invocation waits for the sub-parse of the second of two
\* consecutive #if blocks, whose body spans several lines
C21_Witness ==
  /\ pc = "run"
  /\ Len(stack) = 2
  /\ stack[1].pass = "conditional"
  /\ stack[1].match.found
  /\ stack[1].st.conditionals = <<s_c, s_hasDiscount>>
  /\ stack[1].match.index > 1
  /\ Cardinality({j \in 1..Len(stack[2].text) : stack[2].text[j] = Newline}) >= 2
  /\ \A j \in 1..Len(stack[2].text) : stack[2].text[j].k # "close"

\* the first closing tag of the kind of the opener at o, 0 if there is none
FirstCloseOf(txt, o) ==
  LET closes == {c \in (o + 1)..Len(txt) : IsClose(txt, c, txt[o].b)}
  IN IF closes = {} THEN 0 ELSE Min(closes)

\* the blocks open at position i: the openers at or before i whose block,
\* ended by the first closing tag of their kind, reaches beyond i
OpenAt(txt, i) ==
  {o \in 1..i : txt[o].k = "open" /\ FirstCloseOf(txt, o) > i}

\* the block nesting depth of a text
NestingDepth(txt) ==
  IF txt = <<>> THEN 0
  ELSE LET depths == {Cardinality(OpenAt(txt, i)) : i \in 1..Len(txt)}
       IN CHOOSE d \in depths : \A e \in depths : e <= d

\* the first opener of kind b after position from that a closing tag ends
NextBlock(b, txt, from) ==
  LET cand == {o \in (from + 1)..Len(txt) :
                 IsOpen(txt, o, b) /\ FirstCloseOf(txt, o) > 0}
  IN IF cand = {} THEN 0 ELSE Min(cand)

\* the loop iterations (the failing exec included) a field loop has left
FieldSteps(pass, txt, from) ==
  LET kind == IF pass = "simpleField" THEN "simple" ELSE "nested"
  IN Cardinality({i \in (from + 1)..Len(txt) : txt[i].k = kind}) + 1

RECURSIVE StepsOf(_)
RECURSIVE BlockSteps(_, _, _)

\* the steps a block loop has left from position from on, the steps of the
\* sub-parses it calls included
BlockSteps(b, txt, from) ==
  LET o == NextBlock(b, txt, from) IN
  IF o = 0 THEN 1
  ELSE 1 + StepsOf(SubSeq(txt, o + 1, FirstCloseOf(txt, o) - 1))
         + BlockSteps(b, txt, FirstCloseOf(txt, o))

\* the steps of an invocation on txt, from its entry to its return
StepsOf(txt) ==
  FieldSteps("simpleField", txt, 0) + FieldSteps("nestedField", txt, 0)
  + BlockSteps("if", txt, 0) + BlockSteps("each", txt, 0)
  + BlockSteps("unless", txt, 0) + BlockSteps("with", txt, 0) + 1

PassSteps(pass, txt, from) ==
  IF pass \in {"simpleField", "nestedField"} THEN FieldSteps(pass, txt, from)
  ELSE BlockSteps(blockKindOf(pass), txt, from)

RECURSIVE LaterSteps(_, _)
\* the steps of the passes after the i-th
LaterSteps(i, txt) ==
  IF i >= Len(PassOrder) THEN 0
  ELSE PassSteps(PassOrder[i + 1], txt, 0) + LaterSteps(i + 1, txt)

\* the steps an invocation has left, those of a sub-parse it waits for excluded
StepsLeft(fr) ==
  IF fr.pass = "return" THEN 1
  ELSE PassSteps(fr.pass, fr.text, fr.patterns[fr.pass])
       + LaterSteps(PassIndex(fr.pass), fr.text) + 1

RECURSIVE Rank(_)
\* the steps the running parse has left
Rank(stk) == IF stk = <<>> THEN 0 ELSE StepsLeft(Head(stk)) + Rank(Tail(stk))

\* every sub-parse on the stack runs on a text strictly shorter than its
\* caller's, the stack is no deeper than the nesting of the document, and
\* the innermost invocation has a statement to run
ShrinkingCalls ==
  pc = "run" =>
    /\ \A i \in 1..(Len(stack) - 1) : Len(stack[i + 1].text) < Len(stack[i].text)
    /\ Len(stack) <= 1 + NestingDepth(text)
    /\ Len(stack) >= 1
    /\ Top.pass \in {PassOrder[i] : i \in 1..Len(PassOrder)} \cup {"return"}

\* C22: parseDocumenteroTemplate terminates on every text: each recursive
\* call is made on a block body strictly shorter than the text of the
\* calling invocation, the recursion depth is bounded by the block nesting
\* depth of the document, and every step of the parse lowers by one a count
\* of steps left that the text alone fixes, down to the outermost return.
C22_Terminates ==
  /\ []ShrinkingCalls
  /\ [][(pc = "call" /\ pc' = "run") => Rank(stack') = StepsOf(text)]_vars
  /\ [][(pc = "run" /\ pc' = "run") => Rank(stack') = Rank(stack) - 1]_vars
  /\ [][(pc = "run" /\ pc' # "run") => Rank(stack) = 1]_vars

\* three invocations deep in a document whose blocks nest three deep
C22_Witness ==
  /\ pc = "run"
  /\ Len(stack) = 3
  /\ NestingDepth(text) >= 2
  /\ Len(stack[3].text) < Len(stack[2].text)
  /\ Len(stack[3].text) >= 1
  /\ Rank(stack) < StepsOf(text)

----------------------------------------------------------------------------
(* C23: the warnings of the validator *)

\* C23: validateDocxFieldsForPhase1 emits exactly one warning per skipped
\* field, in the order of skippedFields, and none for a compatible field; the
\* warning of a flagged field names nested if isNested is set, otherwise
\* conditional if isConditional is set, otherwise loop; the warning of an
\* unflagged field names the unsupported type.
C23_OneWarningPerSkippedField ==
  Validated =>
    /\ Len(validation.warnings) = Len(validation.skippedFields)
    /\ Len(validation.warnings) = Len(fields) - Len(validation.compatibleFields)
    /\ \A k \in 1..Len(validation.skippedFields) :
         LET f == validation.skippedFields[k]
             w == validation.warnings[k]
         IN /\ w.name = f.name
            /\ f.isNested =>
                 w.kind = "Skipped complex field" /\ w.detail = "nested"
            /\ (~f.isNested /\ f.isConditional) =>
                 w.kind = "Skipped complex field" /\ w.detail = "conditional"
            /\ (~f.isNested /\ ~f.isConditional /\ f.isLoop) =>
                 w.kind = "Skipped complex field" /\ w.detail = "loop"
            /\ (~f.isNested /\ ~f.isConditional /\ ~f.isLoop) =>
                 w.kind = "Skipped unsupported field type" /\ w.detail = f.type

\* a validated list with a compatible field, then a field that is both nested
\* and conditional, then a field of unsupported type
C23_Witness ==
  /\ Validated
  /\ Len(fields) = 3
  /\ Len(validation.compatibleFields) = 1
  /\ fields[1] = validation.compatibleFields[1]
  /\ Len(validation.warnings) = 2
  /\ fields[2].isNested /\ fields[2].isConditional
  /\ validation.warnings[1].detail = "nested"
  /\ ~isComplex(fields[3])
  /\ validation.warnings[2] =
       [kind |-> "Skipped unsupported field type", name |-> s_notes, detail |-> "image"]

----------------------------------------------------------------------------
(* C24: the primary display column *)

\* C24: for every field list passed to createTableFromDocxFields, directly
\* after validation or unfiltered by createScreenFromDocxTemplate, the
\* returned primaryDisplay is the name of a column of the returned schema.
C24_PrimaryDisplayIsColumn ==
  pc \in {"done", "screened"} => MapHas(table.schema, table.primaryDisplay)

----------------------------------------------------------------------------
(* C25: the synthesizer against the validator *)

\* no name twice and no name that collides with the identifier column or
\* with an inherited property of the schema object
PlainNames(fs) ==
  /\ DistinctNames(fs)
  /\ \A i \in 1..Len(fs) : fs[i].name \notin {str_id, str___proto__}

NamesOf(fs) == [i \in 1..Len(fs) |-> fs[i].name]

\* C25: for every field list (here without colliding names), the columns
\* other than _id emitted by createTableFromDocxFields and the components
\* emitted by createFormComponentsFromDocxFields are exactly the fields that
\* validateDocxFieldsForPhase1 returns in compatibleFields.
C25_SynthesizerAgreesWithValidator ==
  (pc = "screened" /\ PlainNames(fields)) =>
    LET usable == NamesOf(validateDocxFieldsForPhase1(fields).compatibleFields)
        columns == SelectSeq(table.schema, LAMBDA e : e.key # str_id)
        components == screen.props._children[1]._children
    IN /\ [i \in 1..Len(columns) |-> columns[i].key] = usable
       /\ [i \in 1..Len(components) |-> components[i].field] = usable

----------------------------------------------------------------------------
(* C26: createAppFromDocxTemplate and the users table *)

Finished == pc \in {"returned", "threw"}

IsUsersPut(c) == c.fn = "db.put" /\ c.arg = USERS_TABLE_SCHEMA

\* the template has no compatible field: none that is flat and of one of
\* the seven supported types
NoCompatibleFields ==
  request # null /\ \A i \in 1..Len(request.fields) : ~IsCompatible(request.fields[i])

\* C26: every execution of createAppFromDocxTemplate issues
\* db.put(USERS_TABLE_SCHEMA) before it returns or throws, on every path
\* (template not found, no compatible fields, success, failure of an
\* intermediate step), and a normal return follows a users put that
\* resolved; when the template has no compatible fields it writes only the
\* users table and creates no derived table, layout, workspace app or screen.
C26_UsersTableOnEveryPath ==
  Finished =>
    /\ \E i \in 1..Len(calls) : IsUsersPut(calls[i])
    /\ pc = "returned" => IsUsersPut(calls[Len(calls)]) /\ calls[Len(calls)].ok
    /\ NoCompatibleFields => \A i \in 1..Len(calls) : IsUsersPut(calls[i])

----------------------------------------------------------------------------
(* C27: uploadDocxTemplate rejects before it acts, and uploads before it stores *)

\* the file name ends in .docx, letter case aside
HasDocxExtension(name) ==
  /\ Len(name) >= 5
  /\ \A k \in 1..5 : toLowerCaseChar(name[Len(name) - 5 + k]) = str_dotDocx[k]

\* the template name is missing, empty or made of blanks only
BlankName(req) ==
  ~req.hasName \/ \A k \in 1..Len(req.name) : req.name[k] = " "

\* a request the controller has to reject
Rejectable(req) ==
  \/ req.file.kind # "file"
  \/ ~HasDocxExtension(req.file.name)
  \/ BlankName(req)

\* C27: in uploadDocxTemplate a request with no single file, a file name
\* not ending in .docx (letter case aside) or an empty or blank template
\* name is answered with status 400 before any side effect (no object-store
\* upload, no database write), and the template document is written only
\* after the object-store upload has succeeded, so a failed upload never
\* leaves a metadata document.
C27_RejectBeforeSideEffects ==
  /\ Rejectable(request) =>
       /\ calls = <<>>
       /\ pc \in {"uploadDocxTemplate", "responded"}
       /\ pc = "responded" => response = 400
  /\ response = 400 => calls = <<>>
  /\ \A i \in 1..Len(calls) :
       calls[i].fn = "db.put" =>
         \E j \in 1..(i - 1) : calls[j].fn = "objectStore.upload" /\ calls[j].ok
  /\ (\E j \in 1..Len(calls) : calls[j].fn = "objectStore.upload" /\ ~calls[j].ok)
       => ~\E i \in 1..Len(calls) : calls[i].fn = "db.put"

\* a .docx file sent with a name of blanks only has been answered with 400
C27_Witness ==
  /\ pc = "responded"
  /\ request.file.kind = "file" /\ HasDocxExtension(request.file.name)
  /\ request.hasName /\ request.name = <<" ", " ">>
  /\ response = 400
  /\ calls = <<>>

----------------------------------------------------------------------------
(* C28, C29: the upload modal with calls in flight *)

InFlight(fn) == \E i \in 1..Len(tasks) : tasks[i].fn = fn

\* what parsing the file gives: the parser's result, or nothing when the
\* file cannot be read
ParsedFrom(f) ==
  IF f.content.readable THEN parseDocumenteroTemplate(f.content.text) ELSE null

\* C28: in the upload modal, once every in-flight parseDocxFile call has
\* completed, parsedFields and parseResults are those parsed from the
\* currently selected file (the last file accepted by handleFileChange), or
\* empty if no file is selected; a parse started for an earlier selection
\* never overwrites the result for a later one.
C28_ResultsOfSelectedFile ==
  ~InFlight("parseDocxFile") =>
    IF ui.file = null
      THEN fields = <<>> /\ parseResults = null
      ELSE /\ parseResults = ParsedFrom(ui.file)
           /\ fields = IF parseResults = null THEN <<>> ELSE parseResults.fields

\* C29: in the upload modal, canSubmit is false whenever a parseDocxFile or
\* an uploadTemplate call is still in flight, also when a second file is
\* selected while the first is still being parsed; and the parsing and
\* uploading flags are both false once all calls have completed.
C29_NoSubmitWhileInFlight ==
  /\ tasks # <<>> => ~canSubmit(ui)
  /\ tasks = <<>> => ~ui.parsing /\ ~ui.uploading

----------------------------------------------------------------------------
(* C30: one selection at a time in the templates modal *)

\* C30: in the templates modal at most one onSelectTemplate call is in
\* flight at any time and, while one is, isLoading is true and
\* selectedTemplateId is the key of its template, so an invocation of
\* handleSelectTemplate while isLoading is true has no effect; after a
\* selection has failed isLoading is false and selectedTemplateId is null
\* (a new selection is possible), and after a selection has succeeded
\* isLoading stays true and no further call is made.
C30_OneSelectionInFlight ==
  /\ Len(tasks) <= 1
  /\ tasks # <<>> =>
       ui.isLoading /\ ui.selectedTemplateId = tasks[1].template.key
  /\ (tasks = <<>> /\ calls # <<>> /\ ~calls[Len(calls)].ok) =>
       ~ui.isLoading /\ ui.selectedTemplateId = nullKey
  /\ \A i \in 1..Len(calls) :
       calls[i].ok =>
         /\ i = Len(calls) /\ tasks = <<>>
         /\ ui.isLoading /\ ui.selectedTemplateId = calls[i].arg.key
  /\ (tasks = <<>> /\ calls = <<>>) => ~ui.isLoading

\* a selection has failed and the selection of another template, a DOCX
\* template, is in flight
C30_Witness ==
  /\ Len(calls) = 1 /\ ~calls[1].ok
  /\ Len(tasks) = 1
  /\ tasks[1].template.key = "docx/2" /\ tasks[1].template.useTemplate
  /\ calls[1].arg.key = "app/crm"
  /\ ui.isLoading

====
